---- MODULE Spec2Model ----
(***************************************************************************)
(* OVMSProtocolClient (custom_components/ovms_hass/coordinator.py): the    *)
(* Protocol v2 session object, its two background loops (reader, ping)     *)
(* and the foreground coroutines that call its public methods.             *)
(*                                                                         *)
(* asyncio is cooperative: one action of this model is the code a          *)
(* coroutine runs between two suspension points (await that really         *)
(* suspends).  The network and the timers are the environment: what a      *)
(* read returns, whether a drain fails and when a timeout fires are chosen *)
(* nondeterministically.                                                   *)
(***************************************************************************)
EXTENDS Integers, Sequences, FiniteSets, TLC

\* Foreground coroutines that use the client concurrently (service calls,
\* setup and unload of the integration).
Callers == {1, 2}

\* Number of calls of connect(), disconnect(), start_background_reader() and
\* send_command() in one behaviour.  No call can open more than one
\* connection or create more than one task of a kind, so this also bounds
\* the connections and the tasks (one more of each for a behaviour that
\* starts from the session after setup).
MaxCalls == 3
\* Number of lines written on one connection (handshake line included).
MaxWire == 3
\* Number of bytes the reader loop decodes with one rx cipher.
MaxRx == 13
\* Length of the longest payload of a received message.
MaxPay == 1
\* Length of the longest command string given to send_command().
MaxCmd == 1

Conns == 1..(MaxCalls + 1)
TaskIds == 1..(MaxCalls + 1)

\* "prime_data = bytes(1024)": both ciphers discard 1024 keystream bytes.
Prime == 1024
\* Length of the "MP-0 " preamble; a message is preamble, type tag, payload.
Preamble == 5

\* RC4 object abstracted to (key of the connection it was derived for,
\* number of bytes run through crypt() since its construction).
\* key = 0 stands for None.
NoCipher == [key |-> 0, pos |-> 0]
FreshCipher(n) == [key |-> n, pos |-> Prime]
\* crypt(data) with len(data) = n advances the keystream by n bytes.
Crypt(ci, n) == [ci EXCEPT !.pos = @ + n]

\* Lengths of the command strings given to send_command().
CmdLens == 1..MaxCmd
\* Characters of the payloads of received messages: superscript two, which
\* str.isdigit() accepts and int() rejects.
PayChars == {"sup2"}
\* Payloads of received messages.
Payloads == UNION {[1..k -> PayChars] : k \in 0..MaxPay}
\* Length of a message: preamble, one character of type tag, payload.
MsgLen(n) == Preamble + 1 + n

\* A line on the wire: its type tag, and the tx cipher (key, position) that
\* encoded it.  The handshake line is plaintext.
Plain(tag) == [tag |-> tag, key |-> 0, pos |-> 0]
Encoded(tag, ci) == [tag |-> tag, key |-> ci.key, pos |-> ci.pos]

\* What reader.readline() of the reader loop can produce.
\*   eof      b""                       err      readline raises
\*   badutf8  bytes that are not UTF-8   blank    only whitespace
\*   badb64   text that b64decode rejects
\*   nonmp    decodes, no "MP-0 " preamble
\*   c F D    preamble and that type tag  other   any other tag
Inputs == {"eof", "err", "badutf8", "blank", "badb64", "nonmp", "c", "F", "D", "other"}

(***************************************************************************)
(* Text, and the three message handlers of the reader loop                 *)
(*                                                                         *)
(* A str is a sequence of characters, a character a one-element string;    *)
(* "sup2" stands for U+00B2 (superscript two).  An optional value is <<>>   *)
(* (None, or a key that a dict does not have) or <<v>>.                    *)
(***************************************************************************)

None == <<>>
Some(v) == <<v>>

\* What a call of int() or float() gives: a value, or an exception.
Value(v) == [ok |-> TRUE, val |-> v, exc |-> "none"]
Raise(e) == [ok |-> FALSE, val |-> 0, exc |-> e]

\* s.find(","), counted from 1; 0 when there is no comma.
FirstComma(s) ==
    IF \E i \in 1..Len(s) : s[i] = ","
    THEN CHOOSE i \in 1..Len(s) : s[i] = "," /\ \A j \in 1..(i - 1) : s[j] # ","
    ELSE 0

\* split(",") has no limit.
NoLimit == -1

\* s.split(",", maxsplit)
RECURSIVE Split(_, _)
Split(s, maxsplit) ==
    LET i == FirstComma(s) IN
    IF maxsplit = 0 \/ i = 0
    THEN <<s>>
    ELSE <<SubSeq(s, 1, i - 1)>> \o Split(SubSeq(s, i + 1, Len(s)), maxsplit - 1)

\* ",".join(fields): how the peer builds a payload.
RECURSIVE Join(_)
Join(fields) ==
    IF fields = <<>> THEN <<>>
    ELSE IF Len(fields) = 1 THEN fields[1]
    ELSE fields[1] \o <<",">> \o Join(Tail(fields))

Decimals == <<"0", "1", "2", "3", "4", "5", "6", "7", "8", "9">>
IsDecimal(ch) == \E d \in 1..Len(Decimals) : Decimals[d] = ch
DigitValue(ch) == (CHOOSE d \in 1..Len(Decimals) : Decimals[d] = ch) - 1
AllDecimal(s) == s # <<>> /\ \A i \in 1..Len(s) : IsDecimal(s[i])

RECURSIVE DecimalValue(_)
DecimalValue(s) ==
    IF s = <<>> THEN 0
    ELSE 10 * DecimalValue(SubSeq(s, 1, Len(s) - 1)) + DigitValue(s[Len(s)])

\* s.isdigit(): not empty, and every character has the Unicode property
\* Digit: the decimal digits, and also superscript digits, which int() does
\* not accept.
IsDigit(s) == s # <<>> /\ \A i \in 1..Len(s) : IsDecimal(s[i]) \/ s[i] = "sup2"

\* int(s) for a str of the characters used here: an optional "-" and decimal
\* digits, else ValueError.
IntOf(s) ==
    IF AllDecimal(s) THEN Value(DecimalValue(s))
    ELSE IF s # <<>> /\ s[1] = "-" /\ AllDecimal(Tail(s))
    THEN Value(0 - DecimalValue(Tail(s)))
    ELSE Raise("ValueError")

\* s.find("."), counted from 1; 0 when there is no point.
FirstPoint(s) ==
    IF \E i \in 1..Len(s) : s[i] = "."
    THEN CHOOSE i \in 1..Len(s) : s[i] = "." /\ \A j \in 1..(i - 1) : s[j] # "."
    ELSE 0

\* int(float(s)) for a str of the characters used here (no exponent): float()
\* takes an optional "-", then digits with at most one point and at least
\* one digit, or "inf"; int() truncates towards zero and raises
\* OverflowError for an infinity.  Anything else is a ValueError.
IntOfFloat(s) ==
    LET neg == s # <<>> /\ s[1] = "-"
        u == IF neg THEN Tail(s) ELSE s
        dot == FirstPoint(u)
        whole == IF dot = 0 THEN u ELSE SubSeq(u, 1, dot - 1)
        frac == IF dot = 0 THEN <<>> ELSE SubSeq(u, dot + 1, Len(u))
    IN  IF u = <<"i", "n", "f">> THEN Raise("OverflowError")
        ELSE IF /\ whole = <<>> \/ AllDecimal(whole)
                /\ frac = <<>> \/ AllDecimal(frac)
                /\ whole # <<>> \/ frac # <<>>
        THEN Value(IF neg THEN 0 - DecimalValue(whole) ELSE DecimalValue(whole))
        ELSE Raise("ValueError")

\* "len(parts) > i and parts[i]": the field is there and is not empty.
Has(parts, i) == Len(parts) > i /\ parts[i + 1] # <<>>

\* The dict a command response is parsed into.
Response(code, result, message) ==
    [code |-> code, result |-> result, message |-> message]

\* What a handler did: it raised, or it returned and left this sink and
\* this pending response.
Raised(sink, response) == [raised |-> TRUE, sink |-> sink, response |-> response]
Returned(sink, response) == [raised |-> FALSE, sink |-> sink, response |-> response]

\* _handle_command_response(payload): the response it stores, or the
\* exception of int().
HandleCommandResponse(sink, response, payload) ==
    LET parts == Split(payload, 2)
        code == IF Len(parts) > 0 /\ IsDigit(parts[1]) THEN IntOf(parts[1]) ELSE Value(0)
        result == IF Len(parts) > 1 /\ IsDigit(parts[2]) THEN IntOf(parts[2]) ELSE Value(0)
    IN  IF ~code.ok \/ ~result.ok
        THEN Raised(sink, response)
        ELSE Returned(sink,
                 Some(Response(
                     IF Len(parts) > 0 /\ IsDigit(parts[1]) THEN Some(code.val) ELSE None,
                     IF Len(parts) > 1 /\ IsDigit(parts[2]) THEN Some(result.val) ELSE None,
                     IF Len(parts) > 2 THEN parts[3] ELSE <<>>)))

\* The keys of protocol_data that the handlers write.
SinkKeys == {"m_firmware", "car_vin", "car_gsm_signal", "car_type", "m_hardware",
             "m_mdm_mode", "hvac"}

\* "self.protocol_data: dict[str, Any] = {}"
EmptySink == [k \in SinkKeys |-> None]

\* Variant of FirmwareFields: hardware version and modem mode one field
\* further on.
FirmwareFields_Shifted ==
    [m_firmware |-> 0, car_vin |-> 1, car_gsm_signal |-> 2, car_type |-> 4,
     m_hardware |-> 9, m_mdm_mode |-> 10]

\* The index of the field of an F payload that each key is taken from.
FirmwareFields ==
    [m_firmware |-> 0, car_vin |-> 1, car_gsm_signal |-> 2, car_type |-> 4,
     m_hardware |-> 8, m_mdm_mode |-> 9]

\* Variant of Update: a key that the message does not give is removed.
Update_Replace(sink, data) ==
    [k \in SinkKeys |-> IF k \in DOMAIN data THEN data[k] ELSE sink[k]]

\* "self.protocol_data.update(data)"
Update(sink, data) ==
    [k \in SinkKeys |-> IF k \in DOMAIN data /\ data[k] # None THEN data[k] ELSE sink[k]]

\* _parse_firmware_message(payload): "data" gets the fields that are there
\* and not empty (the signal only if int(float()) gives a value or a
\* ValueError), and is merged into the sink; an OverflowError leaves the
\* function before the merge.
ParseFirmware(sink, response, payload) ==
    LET parts == Split(payload, NoLimit)
        at == FirmwareFields
        signal == IF Has(parts, at.car_gsm_signal)
                  THEN IntOfFloat(parts[at.car_gsm_signal + 1])
                  ELSE Raise("absent")
        data == [k \in DOMAIN at |->
                    IF ~Has(parts, at[k]) THEN None
                    ELSE IF k = "car_gsm_signal"
                    THEN (IF signal.ok THEN Some(signal.val) ELSE None)
                    ELSE Some(parts[at[k] + 1])]
    IN  IF signal.exc = "OverflowError"
        THEN Raised(sink, response)
        ELSE Returned(Update(sink, data), response)

\* "doors5 is at index 17"
Doors5Index == 17

\* "bit 7 (0x80) = HVAC active"
HvacBit == 128

\* Variant of BitSet: "bool(v)".
BitSet_Nonzero(v, mask) == v # 0

\* "bool(v & mask)" for a mask of one bit (two's complement for v < 0).
BitSet(v, mask) == (v \div mask) % 2 = 1

\* _parse_environment_message(payload): a ValueError of int() is caught.
ParseEnvironment(sink, response, payload) ==
    LET parts == Split(payload, NoLimit)
        doors5 == IF Has(parts, Doors5Index) THEN IntOf(parts[Doors5Index + 1]) ELSE Raise("absent")
    IN  IF doors5.ok
        THEN Returned([sink EXCEPT !["hvac"] = Some(BitSet(doors5.val, HvacBit))], response)
        ELSE Returned(sink, response)

\* Variant of Dispatch: a tag that has no handler is taken as F.
Dispatch_DefaultFirmware(tag, sink, response, payload) ==
    CASE tag = "c" -> HandleCommandResponse(sink, response, payload)
      [] tag = "D" -> ParseEnvironment(sink, response, payload)
      [] OTHER -> ParseFirmware(sink, response, payload)

\* The dispatch on the type tag of a decoded line: 'c', 'F' and 'D' have a
\* handler, 'S', 'T', 'L' and 'a' pass, every other tag is logged.
Dispatch(tag, sink, response, payload) ==
    CASE tag = "c" -> HandleCommandResponse(sink, response, payload)
      [] tag = "F" -> ParseFirmware(sink, response, payload)
      [] tag = "D" -> ParseEnvironment(sink, response, payload)
      [] OTHER -> Returned(sink, response)

VARIABLES
    connected,        \* self.connected
    authenticated,    \* self.authenticated
    sock,             \* self._reader / self._writer: 0 = None, else a connection
    conns,            \* state of each connection's socket
    txCipher,         \* self._tx_cipher
    rxCipher,         \* self._rx_cipher
    readerTask,       \* self._reader_task: 0 = None, else a reader task
    pingTask,         \* self._ping_task: 0 = None, else a ping task
    readers,          \* every reader task ever created
    pings,            \* every ping task ever created
    commandResponse,  \* self._command_response: 0 = None, else the command that
                      \* the stored response dict answers
    commandEvent,     \* self._command_event is set
    woken,            \* callers whose Event.wait() future has been completed
    lock,             \* self._command_lock: 0 = free, else the holder
    lockQ,            \* callers queued on the lock, FIFO
    pc,               \* where each caller is suspended
    loc,              \* the object a suspended caller holds in a local
    wire,             \* lines written on the connection in self._writer
    calls,            \* calls of the public methods made in this behaviour
    connectRaised,    \* a connect() raised and none has succeeded since
    rxBytes,          \* bytes of the lines the reader loop decoded since the
                      \* rx cipher was built
    last,             \* what the last step did
    protocolData,     \* self.protocol_data
    pure,             \* inputs and results of the functions checked on their own
    cmd,              \* the commands written: how many, which of them the server
                      \* has not answered yet, and the last one of each caller
    job               \* where each caller is in async_send_command()

vars == <<connected, authenticated, sock, conns, txCipher, rxCipher, readerTask,
          pingTask, readers, pings, commandResponse, commandEvent, woken, lock,
          lockQ, pc, loc, wire, calls, connectRaised, rxBytes, last,
          protocolData, pure, cmd, job>>

\* The fields of the session object, the sockets and the tasks.
session == <<connected, authenticated, sock, conns, txCipher, rxCipher,
             readerTask, pingTask, readers, pings, commandResponse,
             commandEvent, wire>>

\* Variant of CiphersShared: one RC4 object serves both directions.
CiphersShared_OneObject == TRUE

\* "self._tx_cipher = RC4(crypto_key); self._rx_cipher = RC4(crypto_key)":
\* two objects.
CiphersShared == FALSE

\* The other direction's cipher after this direction's cipher became ci.
RxAfterEncode(ci) == IF CiphersShared THEN ci ELSE rxCipher
TxAfterDecode(ci) == IF CiphersShared THEN ci ELSE txCipher

NoTask == [st |-> "unused", conn |-> 0]

\* No command was written yet.  Commands are numbered 1, 2, ... in the order
\* in which they are written.
NoCmd == [sent |-> 0, pending |-> <<>>, mine |-> [c \in Callers |-> 0]]

\* The command that a 'c' line answers when it answers none of this client
\* (the server relays the car's answers to every connected app).
Foreign == 0 - 1

\* The command that the next 'c' line answers: the server answers the
\* commands of a connection in the order in which it received them.
Answered == IF cmd.pending # <<>> THEN Head(cmd.pending) ELSE Foreign

\* The value of "pure" in the specifications of the session.
NoPure == [fn |-> "none"]

\* No caller is inside async_send_command().  at is the place of the call,
\* conn the connection its connect() opened (0 = none), ret what it returned.
NoJob == [at |-> "none", conn |-> 0, ret |-> "none"]
NoJobs == [c \in Callers |-> NoJob]

\* A call made on the client directly counts towards MaxCalls; a call made
\* by async_send_command() is part of that one call.
Direct(c) == job[c].at = "none"
MayCall(c) == Direct(c) => calls < MaxCalls
CallsAfter(c) == IF Direct(c) THEN calls + 1 ELSE calls

\* The session object after __init__.
SessionInit ==
    /\ connected = FALSE
    /\ authenticated = FALSE
    /\ sock = 0
    /\ conns = [n \in Conns |-> "unused"]
    /\ txCipher = NoCipher
    /\ rxCipher = NoCipher
    /\ readerTask = 0
    /\ pingTask = 0
    /\ readers = [t \in TaskIds |-> NoTask]
    /\ pings = [t \in TaskIds |-> NoTask]
    /\ commandResponse = 0
    /\ commandEvent = FALSE
    /\ woken = {}
    /\ lock = 0
    /\ lockQ = <<>>
    /\ pc = [c \in Callers |-> "idle"]
    /\ loc = [c \in Callers |-> 0]
    /\ wire = <<>>
    /\ calls = 0
    /\ connectRaised = FALSE
    /\ rxBytes = 0
    /\ last = "init"
    /\ protocolData = EmptySink
    /\ cmd = NoCmd
    /\ job = NoJobs

Init == SessionInit /\ pure = NoPure

Alive(tasks, t) == t # 0 /\ tasks[t].st \notin {"unused", "done"}
Unused(tasks) == {t \in TaskIds : tasks[t].st = "unused"}
NextUnused(tasks) == CHOOSE t \in Unused(tasks) : \A u \in Unused(tasks) : t <= u
FreeConns == {n \in Conns : conns[n] = "unused"}
NextConn == CHOOSE n \in FreeConns : \A m \in FreeConns : n <= m


(***************************************************************************)
(* connect()                                                               *)
(***************************************************************************)

\* connect() as far as its suspension in drain() / wait_for(readline(), 30):
\* open_connection() returned, the socket is stored, connected is set and
\* the plaintext "MP-A 0 ..." line is written.  (Nothing is assigned before
\* open_connection() returns, so the call and the return are one step.)
ConnectOpened(c) ==
    /\ pc[c] = "idle"
    /\ MayCall(c)
    /\ calls' = CallsAfter(c)
    /\ UNCHANGED <<connectRaised, rxBytes>>
    /\ FreeConns # {}
    /\ LET n == NextConn IN
         /\ conns' = [conns EXCEPT ![n] = "open"]
         /\ sock' = n
         /\ wire' = <<Plain("MP-A")>>
         /\ loc' = [loc EXCEPT ![c] = n]
    /\ connected' = TRUE
    /\ pc' = [pc EXCEPT ![c] = "c_hs"]
    /\ last' = "connect_opened"
    /\ UNCHANGED <<authenticated, txCipher, rxCipher, readerTask, pingTask,
                   readers, pings, commandResponse, commandEvent, woken, lock,
                   lockQ>>
    /\ UNCHANGED <<protocolData, pure>>
    /\ cmd' = [cmd EXCEPT !.pending = <<>>]

\* open_connection() raised: "except Exception" sets connected False and
\* raises OVMSConnectionError.
ConnectOpenFail(c) ==
    /\ pc[c] = "idle"
    /\ MayCall(c)
    /\ calls' = CallsAfter(c)
    /\ connected' = FALSE
    /\ connectRaised' = TRUE
    /\ UNCHANGED rxBytes
    /\ last' = "connect_failed"
    /\ UNCHANGED <<authenticated, sock, conns, txCipher, rxCipher, readerTask,
                   pingTask, readers, pings, commandResponse, commandEvent,
                   woken, lock, lockQ, pc, loc, wire>>
    /\ UNCHANGED <<protocolData, pure, cmd>>

\* base64(HMAC_MD5(auth_key, server_token)) for the server tokens of the
\* model.
ExpectedDigest(token) == IF token = "t1" THEN "d1" ELSE "d2"

\* What connect() gets after it wrote its login line:
\*   err      drain() or readline() raised
\*   timeout  no line within 30 seconds
\*   eof      readline() returned b""
\*   line     a line, given as its whitespace-separated parts
NoLine(kind) == [kind |-> kind, parts |-> <<>>]
Line(parts) == [kind |-> "line", parts |-> parts]
Replies ==
    {NoLine("err"), NoLine("timeout"), NoLine("eof"),
     Line(<<"MP-A", "0", "t1", "d1">>), Line(<<"MP-S", "0", "t1", "d1">>),
     Line(<<"MP-S", "0", "t1", "dX">>), Line(<<"MP-A", "1", "t1", "d1">>),
     Line(<<"MP-X", "0", "t1", "d1">>), Line(<<"MP-A", "0", "t1">>),
     Line(<<>>)}

\* Variant of WellFormed that does not look at the second token.
WellFormed_AnyStatus(parts) ==
    Len(parts) >= 4 /\ parts[1] \in {"MP-A", "MP-S"}

\* "if len(parts) < 4 or parts[0] not in ("MP-A", "MP-S") or parts[1] != "0":
\* raise".
WellFormed(parts) ==
    Len(parts) >= 4 /\ parts[1] \in {"MP-A", "MP-S"} /\ parts[2] = "0"

\* "server_digest != expected_server_digest"
DigestMatches(parts) == parts[4] = ExpectedDigest(parts[3])

\* Variant of DigestRequired: a mismatch aborts the handshake.
DigestRequired_Strict == TRUE

\* A digest mismatch is logged: "continue anyway".
DigestRequired == FALSE

HandshakeAccepts(r) ==
    /\ r.kind = "line"
    /\ WellFormed(r.parts)
    /\ DigestRequired => DigestMatches(r.parts)

\* Variant of SinkAfterConnect: a new connection starts with no telemetry.
SinkAfterConnect_Reset == EmptySink

\* protocol_data is assigned in __init__ only: connect() leaves it.
SinkAfterConnect == protocolData

\* Variant of CipherAfterConnect: a cipher is built only when the field
\* holds none.
CipherAfterConnect_Reuse(old, n) == IF old = NoCipher THEN FreshCipher(n) ELSE old

\* "self._tx_cipher = RC4(crypto_key)", "self._rx_cipher = RC4(crypto_key)"
\* and the priming of each: a new object from the key of connection n,
\* whatever the field held.
CipherAfterConnect(old, n) == FreshCipher(n)

\* An accepted server line arrived in time (its digest may or may not
\* match): both ciphers are built from the derived key and primed, and
\* authenticated is set.  reader/writer are the locals of this call.
ConnectHandshakeOk(c, r) ==
    /\ pc[c] = "c_hs"
    /\ HandshakeAccepts(r)
    /\ txCipher' = CipherAfterConnect(txCipher, loc[c])
    /\ rxCipher' = CipherAfterConnect(rxCipher, loc[c])
    /\ authenticated' = TRUE
    /\ connectRaised' = FALSE
    /\ rxBytes' = 0
    /\ pc' = [pc EXCEPT ![c] = "idle"]
    /\ loc' = [loc EXCEPT ![c] = 0]
    /\ last' = IF DigestMatches(r.parts) THEN "connect_ok" ELSE "connect_ok_mismatch"
    /\ UNCHANGED <<connected, sock, conns, readerTask, pingTask, readers,
                   pings, commandResponse, commandEvent, woken, lock, lockQ,
                   wire>>
    /\ UNCHANGED calls
    /\ protocolData' = SinkAfterConnect
    /\ UNCHANGED <<pure, cmd>>

\* drain() or readline() raised, the wait timed out, no line, or a line that
\* is not accepted: the except clauses set connected False and raise
\* OVMSConnectionError.
ConnectHandshakeFail(c, r) ==
    /\ pc[c] = "c_hs"
    /\ ~HandshakeAccepts(r)
    /\ connected' = FALSE
    /\ connectRaised' = TRUE
    /\ UNCHANGED rxBytes
    /\ pc' = [pc EXCEPT ![c] = "idle"]
    /\ loc' = [loc EXCEPT ![c] = 0]
    /\ last' = "connect_failed"
    /\ UNCHANGED <<authenticated, sock, conns, txCipher, rxCipher, readerTask,
                   pingTask, readers, pings, commandResponse, commandEvent,
                   woken, lock, lockQ, wire>>
    /\ UNCHANGED calls
    /\ UNCHANGED <<protocolData, pure, cmd>>

(***************************************************************************)
(* start_background_reader()                                               *)
(***************************************************************************)

\* Variant of StartAllowed that leaves out the authenticated check.
StartAllowed_ConnectedOnly == connected

\* "if not self.connected or not self.authenticated: return"
StartAllowed == connected /\ authenticated

\* A task is (re)created when the field is None or its task is done.
NeedsTask(field, tasks) == field = 0 \/ tasks[field].st = "done"

NewTask == [st |-> "new", conn |-> 0]

StartBackgroundReader(c) ==
    /\ pc[c] = "idle"
    /\ MayCall(c)
    /\ calls' = CallsAfter(c)
    /\ UNCHANGED <<connectRaised, rxBytes>>
    /\ IF ~StartAllowed
       THEN /\ last' = "start_rejected"
            /\ UNCHANGED <<readerTask, pingTask, readers, pings>>
       ELSE /\ NeedsTask(readerTask, readers) => Unused(readers) # {}
            /\ NeedsTask(pingTask, pings) => Unused(pings) # {}
            /\ IF NeedsTask(readerTask, readers)
               THEN /\ readerTask' = NextUnused(readers)
                    /\ readers' = [readers EXCEPT ![NextUnused(readers)] = NewTask]
               ELSE UNCHANGED <<readerTask, readers>>
            /\ IF NeedsTask(pingTask, pings)
               THEN /\ pingTask' = NextUnused(pings)
                    /\ pings' = [pings EXCEPT ![NextUnused(pings)] = NewTask]
               ELSE UNCHANGED <<pingTask, pings>>
            /\ last' = "start_ok"
    /\ UNCHANGED <<connected, authenticated, sock, conns, txCipher, rxCipher,
                   commandResponse, commandEvent, woken, lock, lockQ, pc, loc,
                   wire>>
    /\ UNCHANGED <<protocolData, pure, cmd>>

(***************************************************************************)
(* disconnect()                                                            *)
(***************************************************************************)

\* Variant of Disconnected that sets the event instead of clearing it.
Disconnected_EventSet ==
    [connected |-> FALSE, authenticated |-> FALSE, txCipher |-> NoCipher,
     rxCipher |-> NoCipher, commandResponse |-> 0, commandEvent |-> TRUE]

\* The assignments that end disconnect().
Disconnected ==
    [connected |-> FALSE, authenticated |-> FALSE, txCipher |-> NoCipher,
     rxCipher |-> NoCipher, commandResponse |-> 0, commandEvent |-> FALSE]

\* The session as construction or a completed disconnect() leaves it: no
\* status flag, no cipher, no pending response, no task of the two fields
\* running, no socket or a closed one.
Settled ==
    /\ ~connected /\ ~authenticated
    /\ txCipher = NoCipher /\ rxCipher = NoCipher
    /\ commandResponse = 0 /\ ~commandEvent
    /\ ~Alive(readers, readerTask) /\ ~Alive(pings, pingTask)
    /\ sock = 0 \/ conns[sock] = "closed"

DisconnectFinish(c) ==
    /\ connected' = Disconnected.connected
    /\ authenticated' = Disconnected.authenticated
    /\ txCipher' = Disconnected.txCipher
    /\ rxCipher' = Disconnected.rxCipher
    /\ rxBytes' = 0
    /\ commandResponse' = Disconnected.commandResponse
    /\ commandEvent' = Disconnected.commandEvent
    /\ pc' = [pc EXCEPT ![c] = "idle"]
    /\ loc' = [loc EXCEPT ![c] = 0]
    /\ last' = IF pc[c] = "idle" /\ Settled THEN "disconnect_again" ELSE "disconnect_done"

\* task.cancel(): a task that is not done gets CancelledError at its await.
Cancel(tasks, t) == [tasks EXCEPT ![t].st = "cancelling"]

\* "if self._writer: close(); await wait_closed()", then the final
\* assignments.  wait_closed() suspends unless the connection is already lost.
\* rt, pt, rs, ps: the task fields and tasks as the earlier part left them.
DisconnectWriter(c, rt, pt, rs, ps) ==
    /\ readerTask' = rt /\ pingTask' = pt /\ readers' = rs /\ pings' = ps
    /\ IF sock # 0 /\ conns[sock] # "closed"
       THEN /\ conns' = [conns EXCEPT ![sock] = "closing"]
            /\ pc' = [pc EXCEPT ![c] = "d_close"]
            /\ loc' = [loc EXCEPT ![c] = sock]
            /\ last' = "disconnect_closing"
            /\ UNCHANGED <<connected, authenticated, txCipher, rxCipher,
                           commandResponse, commandEvent, rxBytes>>
       ELSE /\ DisconnectFinish(c)
            /\ UNCHANGED conns

\* "if self._reader_task and not self._reader_task.done(): cancel; await".
DisconnectReader(c, pt, ps) ==
    IF Alive(readers, readerTask)
    THEN /\ readers' = Cancel(readers, readerTask)
         /\ pc' = [pc EXCEPT ![c] = "d_reader"]
         /\ loc' = [loc EXCEPT ![c] = readerTask]
         /\ pingTask' = pt /\ pings' = ps
         /\ last' = "disconnect_cancel_reader"
         /\ UNCHANGED <<connected, authenticated, txCipher, rxCipher, conns,
                        commandResponse, commandEvent, readerTask,
                        rxBytes>>
    ELSE DisconnectWriter(c, readerTask, pt, readers, ps)

\* disconnect() from its first line to its first suspension.
DisconnectStart(c) ==
    /\ pc[c] = "idle"
    /\ MayCall(c)
    /\ calls' = CallsAfter(c)
    /\ UNCHANGED connectRaised
    /\ IF Alive(pings, pingTask)
       THEN /\ pings' = Cancel(pings, pingTask)
            /\ pc' = [pc EXCEPT ![c] = "d_ping"]
            /\ loc' = [loc EXCEPT ![c] = pingTask]
            /\ last' = "disconnect_cancel_ping"
            /\ UNCHANGED <<connected, authenticated, txCipher, rxCipher, conns,
                           commandResponse, commandEvent, readerTask, pingTask,
                           readers, rxBytes>>
       ELSE DisconnectReader(c, pingTask, pings)
    /\ UNCHANGED <<sock, woken, lock, lockQ, wire>>
    /\ UNCHANGED <<protocolData, pure, cmd>>

\* "await self._ping_task" returned: self._ping_task = None, and on.
DisconnectPingDone(c) ==
    /\ pc[c] = "d_ping"
    /\ pings[loc[c]].st = "done"
    /\ DisconnectReader(c, 0, pings)
    /\ UNCHANGED <<sock, woken, lock, lockQ, wire>>
    /\ UNCHANGED <<calls, connectRaised>>
    /\ UNCHANGED <<protocolData, pure, cmd>>

\* "await self._reader_task" returned: self._reader_task = None, and on.
DisconnectReaderDone(c) ==
    /\ pc[c] = "d_reader"
    /\ readers[loc[c]].st = "done"
    /\ DisconnectWriter(c, 0, pingTask, readers, pings)
    /\ UNCHANGED <<sock, woken, lock, lockQ, wire>>
    /\ UNCHANGED <<calls, connectRaised>>
    /\ UNCHANGED <<protocolData, pure, cmd>>

\* wait_closed() returned (the connection awaited is lost).
DisconnectClosed(c) ==
    /\ pc[c] = "d_close"
    /\ conns' = [conns EXCEPT ![loc[c]] = "closed"]
    /\ DisconnectFinish(c)
    /\ UNCHANGED <<sock, readerTask, pingTask, readers, pings, woken, lock,
                   lockQ, wire>>
    /\ UNCHANGED <<calls, connectRaised>>
    /\ UNCHANGED <<protocolData, pure, cmd>>

(***************************************************************************)
(* _background_reader_loop()                                               *)
(***************************************************************************)

Done == [st |-> "done", conn |-> 0]

\* "while self.connected and self._reader"
ReaderLoopCondition == connected /\ sock # 0

\* Variant of ReaderFatal that skips a line with invalid base64.
ReaderFatal_SkipBadBase64(m) ==
    \/ m \in {"eof", "err", "badutf8"}
    \/ m # "blank" /\ rxCipher = NoCipher

\* The inputs that end the loop ("break", or an exception caught by
\* "except Exception: ... break"): EOF, a read error, a raw line that is not
\* UTF-8, and, for a non-blank line, a missing rx cipher or invalid base64.
ReaderFatal(m) ==
    \/ m \in {"eof", "err", "badutf8"}
    \/ m # "blank" /\ (rxCipher = NoCipher \/ m = "badb64")

\* Callers suspended in Event.wait(): Event.set() completes their futures.
Waiting == {c \in Callers : pc[c] = "w_wait"}

\* After the loop: "self.connected = False; self.authenticated = False".
ReaderMarkDead ==
    /\ connected' = FALSE
    /\ authenticated' = FALSE

\* The loop evaluates its condition and suspends in readline(), or leaves
\* the loop and marks the session disconnected.
ReaderContinue(t, rs) ==
    IF ReaderLoopCondition
    THEN /\ readers' = [rs EXCEPT ![t] = [st |-> "wait", conn |-> sock]]
         /\ UNCHANGED <<connected, authenticated>>
    ELSE /\ readers' = [rs EXCEPT ![t] = Done]
         /\ ReaderMarkDead

\* First step of a reader task.
ReaderBegin(t) ==
    /\ readers[t].st = "new"
    /\ ReaderContinue(t, readers)
    /\ last' = "reader_begin"
    /\ UNCHANGED <<sock, conns, txCipher, rxCipher, readerTask, pingTask, pings,
                   commandResponse, commandEvent, woken, lock, lockQ, pc, loc,
                   wire>>
    /\ UNCHANGED <<calls, connectRaised, rxBytes>>
    /\ UNCHANGED <<protocolData, pure, cmd>>

\* Variant of RxAdvance: a line without the preamble is dropped before it
\* is decrypted.
RxAdvance_SkipNonMp(m, n) == IF m = "nonmp" THEN 0 ELSE MsgLen(n)

\* "decrypted = self._decrypt_message(response)" comes before the line is
\* classified: every line that decodes advances the rx cipher by its length.
RxAdvance(m, n) == MsgLen(n)

\* What the body of the loop does with a decoded line: a line without the
\* preamble is logged, any other goes to the dispatch on its tag.  The
\* response dict is not kept in the session model: <<>> goes in, and
\* something else comes out when a response was stored.
Handled(m, p) ==
    IF m = "nonmp" THEN Returned(protocolData, None)
    ELSE Dispatch(m, protocolData, None, p)

\* readline() returned m (or raised): one iteration of the loop body.  p is
\* the payload of a line that decodes (for a line without the preamble: what
\* stands in its place).  An exception of a handler is caught by "except
\* Exception: ... break" like any other.
ReaderRecv(t, m, p) ==
    /\ readers[t].st = "wait"
    /\ IF ReaderFatal(m)
       THEN /\ readers' = [readers EXCEPT ![t] = Done]
            /\ ReaderMarkDead
            /\ last' = IF m = "eof" THEN "reader_eof" ELSE "reader_fatal"
            /\ UNCHANGED <<rxCipher, txCipher, commandResponse, commandEvent,
                           woken, rxBytes, protocolData, cmd>>
       ELSE IF m = "blank"
       THEN /\ ReaderContinue(t, readers)
            /\ last' = "reader_blank"
            /\ UNCHANGED <<rxCipher, txCipher, commandResponse, commandEvent,
                           woken, rxBytes, protocolData, cmd>>
       ELSE /\ rxCipher.pos + MsgLen(Len(p)) <= Prime + MaxRx
            /\ rxCipher' = Crypt(rxCipher, RxAdvance(m, Len(p)))
            /\ rxBytes' = rxBytes + MsgLen(Len(p))
            /\ txCipher' = TxAfterDecode(rxCipher')
            /\ protocolData' = Handled(m, p).sink
            /\ cmd' = IF m = "c" /\ cmd.pending # <<>>
                      THEN [cmd EXCEPT !.pending = Tail(@)]
                      ELSE cmd
            /\ IF Handled(m, p).raised
               THEN /\ readers' = [readers EXCEPT ![t] = Done]
                    /\ ReaderMarkDead
                    /\ last' = "reader_raised"
                    /\ UNCHANGED <<commandResponse, commandEvent, woken>>
               ELSE /\ IF Handled(m, p).response # None
                       THEN /\ commandResponse' = Answered
                            /\ commandEvent' = TRUE
                            /\ woken' = woken \cup Waiting
                       ELSE UNCHANGED <<commandResponse, commandEvent, woken>>
                    /\ ReaderContinue(t, readers)
                    /\ last' = CASE m = "c" -> "reader_response"
                                  [] m = "nonmp" -> "reader_skipped"
                                  [] m = "other" -> "reader_ignored"
                                  [] OTHER -> "reader_line"
    /\ UNCHANGED <<sock, conns, readerTask, pingTask, pings, lock, lockQ, pc,
                   loc, wire>>
    /\ UNCHANGED <<calls, connectRaised>>
    /\ UNCHANGED pure

\* CancelledError is delivered at the await: the loop returns at once.
ReaderCancelled(t) ==
    /\ readers[t].st = "cancelling"
    /\ readers' = [readers EXCEPT ![t] = Done]
    /\ last' = "reader_cancelled"
    /\ UNCHANGED <<connected, authenticated, sock, conns, txCipher, rxCipher,
                   readerTask, pingTask, pings, commandResponse, commandEvent,
                   woken, lock, lockQ, pc, loc, wire>>
    /\ UNCHANGED <<calls, connectRaised, rxBytes>>
    /\ UNCHANGED <<protocolData, pure, cmd>>

(***************************************************************************)
(* _ping_loop() and _send_encrypted_message()                              *)
(***************************************************************************)

\* Variant of WireAfterWrite: the line is written ahead of the earlier ones.
WireAfterWrite_Ahead(line) == <<wire[1], line>> \o Tail(wire)

\* "self._writer.write(...)" right after "_encrypt_message(...)": the line
\* goes out behind the lines written before it.
WireAfterWrite(line) == Append(wire, line)

\* _send_encrypted_message: "if not self.connected or not self._writer" and
\* "if not self._tx_cipher" raise OVMSConnectionError before anything is
\* encoded.
WriteReady == connected /\ sock # 0 /\ txCipher # NoCipher

\* Variant of ConnectedAfterPing that marks the session connected again.
ConnectedAfterPing_True == TRUE

\* self.connected after a ping was written and drained: not assigned.
ConnectedAfterPing == connected

\* Variant of PingMarkDead that leaves authenticated as it is.
PingMarkDead_KeepAuthenticated ==
    /\ connected' = FALSE
    /\ UNCHANGED authenticated

\* "except (OVMSConnectionError, OSError)": "self.connected = False;
\* self.authenticated = False; break".
PingMarkDead ==
    /\ connected' = FALSE
    /\ authenticated' = FALSE

\* "while self.connected": sleep again, or leave the loop.
PingContinue(t, conn) ==
    pings' = [pings EXCEPT ![t] = IF conn THEN [st |-> "sleep", conn |-> 0] ELSE Done]

PingBegin(t) ==
    /\ pings[t].st = "new"
    /\ PingContinue(t, connected)
    /\ last' = "ping_begin"
    /\ UNCHANGED <<connected, authenticated, sock, conns, txCipher, rxCipher,
                   readerTask, pingTask, readers, commandResponse, commandEvent,
                   woken, lock, lockQ, pc, loc, wire>>
    /\ UNCHANGED <<calls, connectRaised, rxBytes>>
    /\ UNCHANGED <<protocolData, pure, cmd>>

\* asyncio.sleep(PING_INTERVAL) returned: the heartbeat is encoded and
\* written, and the loop suspends in drain(); or the loop ends.
PingWake(t) ==
    /\ pings[t].st = "sleep"
    /\ IF ~connected \/ sock = 0
       THEN /\ pings' = [pings EXCEPT ![t] = Done]
            /\ last' = "ping_stop"
            /\ UNCHANGED <<connected, authenticated, txCipher, rxCipher, wire>>
       ELSE IF ~WriteReady
       THEN /\ pings' = [pings EXCEPT ![t] = Done]
            /\ PingMarkDead
            /\ last' = "ping_failed"
            /\ UNCHANGED <<txCipher, rxCipher, wire>>
       ELSE /\ Len(wire) < MaxWire
            /\ txCipher' = Crypt(txCipher, MsgLen(0))
            /\ rxCipher' = RxAfterEncode(txCipher')
            /\ wire' = WireAfterWrite(Encoded("A", txCipher))
            /\ pings' = [pings EXCEPT ![t] = [st |-> "drain", conn |-> sock]]
            /\ last' = "ping_written"
            /\ UNCHANGED <<connected, authenticated>>
    /\ UNCHANGED <<sock, conns, readerTask, pingTask, readers, commandResponse,
                   commandEvent, woken, lock, lockQ, pc, loc>>
    /\ UNCHANGED <<calls, connectRaised, rxBytes>>
    /\ UNCHANGED <<protocolData, pure, cmd>>

PingDrainOk(t) ==
    /\ pings[t].st = "drain"
    /\ connected' = ConnectedAfterPing
    /\ PingContinue(t, ConnectedAfterPing)
    /\ last' = "ping_ok"
    /\ UNCHANGED <<authenticated, sock, conns, txCipher, rxCipher, readerTask,
                   pingTask, readers, commandResponse, commandEvent, woken,
                   lock, lockQ, pc, loc, wire>>
    /\ UNCHANGED <<calls, connectRaised, rxBytes>>
    /\ UNCHANGED <<protocolData, pure, cmd>>

\* drain() raised OSError: "except (OVMSConnectionError, OSError)".
PingDrainFail(t) ==
    /\ pings[t].st = "drain"
    /\ pings' = [pings EXCEPT ![t] = Done]
    /\ PingMarkDead
    /\ last' = "ping_failed"
    /\ UNCHANGED <<sock, conns, txCipher, rxCipher, readerTask, pingTask,
                   readers, commandResponse, commandEvent, woken, lock, lockQ,
                   pc, loc, wire>>
    /\ UNCHANGED <<calls, connectRaised, rxBytes>>
    /\ UNCHANGED <<protocolData, pure, cmd>>

PingCancelled(t) ==
    /\ pings[t].st = "cancelling"
    /\ pings' = [pings EXCEPT ![t] = Done]
    /\ last' = "ping_cancelled"
    /\ UNCHANGED <<connected, authenticated, sock, conns, txCipher, rxCipher,
                   readerTask, pingTask, readers, commandResponse, commandEvent,
                   woken, lock, lockQ, pc, loc, wire>>
    /\ UNCHANGED <<calls, connectRaised, rxBytes>>
    /\ UNCHANGED <<protocolData, pure, cmd>>

(***************************************************************************)
(* send_command() and wait_for_command_response()                          *)
(***************************************************************************)

\* Variant of SendReady that leaves out the second check.
SendReady_ConnectedOnly == connected /\ sock # 0

\* The two checks that open send_command().
SendReady == connected /\ sock # 0 /\ authenticated /\ txCipher # NoCipher

\* Variant of LockAfterSend: leaving the body does not release the lock.
LockAfterSend_Held(c) == lock

\* The lock is held on return from send_command(): "async with" releases it
\* when the body is left, however it is left.
LockAfterSend(c) == 0

\* The body of "async with self._command_lock": the pending response is
\* cleared, then _send_encrypted_message() encodes and writes the line and
\* suspends in drain(), or raises before encoding.  n is the length of the
\* command string.
SendLocked(c, n) ==
    /\ commandEvent' = FALSE
    /\ commandResponse' = 0
    /\ loc' = [loc EXCEPT ![c] = 0]
    /\ IF WriteReady
       THEN /\ Len(wire) < MaxWire
            /\ txCipher' = Crypt(txCipher, MsgLen(n))
            /\ rxCipher' = RxAfterEncode(txCipher')
            /\ wire' = WireAfterWrite(Encoded("C", txCipher))
            /\ lock' = c
            /\ pc' = [pc EXCEPT ![c] = "s_drain"]
            /\ last' = "send_written"
            /\ cmd' = [sent |-> cmd.sent + 1,
                       pending |-> Append(cmd.pending, cmd.sent + 1),
                       mine |-> [cmd.mine EXCEPT ![c] = cmd.sent + 1]]
       ELSE /\ lock' = LockAfterSend(c)
            /\ pc' = [pc EXCEPT ![c] = "idle"]
            /\ last' = "send_failed"
            /\ UNCHANGED <<txCipher, rxCipher, wire, cmd>>

\* send_command() from its first line to its first suspension.
SendStart(c, n) ==
    /\ pc[c] = "idle"
    /\ MayCall(c)
    /\ calls' = CallsAfter(c)
    /\ UNCHANGED <<connectRaised, rxBytes>>
    /\ IF ~SendReady
       THEN /\ last' = "send_rejected"
            /\ UNCHANGED <<txCipher, rxCipher, commandResponse, commandEvent,
                           lock, lockQ, pc, loc, wire, cmd>>
       ELSE IF lock = 0 /\ lockQ = <<>>
       THEN /\ SendLocked(c, n)
            /\ UNCHANGED lockQ
       ELSE /\ lockQ' = Append(lockQ, c)
            /\ pc' = [pc EXCEPT ![c] = "s_lock"]
            /\ loc' = [loc EXCEPT ![c] = n]
            /\ last' = "send_blocked"
            /\ UNCHANGED <<txCipher, rxCipher, commandResponse, commandEvent,
                           lock, wire, cmd>>
    /\ UNCHANGED <<connected, authenticated, sock, conns, readerTask, pingTask,
                   readers, pings, woken>>
    /\ UNCHANGED <<protocolData, pure>>

\* The lock was released and this caller is the first in its queue.
SendAcquire(c) ==
    /\ pc[c] = "s_lock"
    /\ lock = 0
    /\ lockQ # <<>> /\ Head(lockQ) = c
    /\ lockQ' = Tail(lockQ)
    /\ SendLocked(c, loc[c])
    /\ UNCHANGED <<connected, authenticated, sock, conns, readerTask, pingTask,
                   readers, pings, woken>>
    /\ UNCHANGED <<calls, connectRaised, rxBytes>>
    /\ UNCHANGED <<protocolData, pure>>

\* drain() returned: the lock is released and send_command() returns.
SendDrainOk(c) ==
    /\ pc[c] = "s_drain"
    /\ lock' = LockAfterSend(c)
    /\ pc' = [pc EXCEPT ![c] = "sent"]
    /\ last' = "send_ok"
    /\ UNCHANGED <<connected, authenticated, sock, conns, txCipher, rxCipher,
                   readerTask, pingTask, readers, pings, commandResponse,
                   commandEvent, woken, lockQ, loc, wire>>
    /\ UNCHANGED <<calls, connectRaised, rxBytes>>
    /\ UNCHANGED <<protocolData, pure, cmd>>

\* drain() raised: the lock is released and OVMSConnectionError is raised.
SendDrainFail(c) ==
    /\ pc[c] = "s_drain"
    /\ lock' = LockAfterSend(c)
    /\ pc' = [pc EXCEPT ![c] = "idle"]
    /\ last' = "send_failed"
    /\ UNCHANGED <<connected, authenticated, sock, conns, txCipher, rxCipher,
                   readerTask, pingTask, readers, pings, commandResponse,
                   commandEvent, woken, lockQ, loc, wire>>
    /\ UNCHANGED <<calls, connectRaised, rxBytes>>
    /\ UNCHANGED <<protocolData, pure, cmd>>

\* wait_for_command_response() up to "await asyncio.wait_for(...)".  A caller
\* whose send_command() returned goes on to wait for the response.
WaitStart(c) ==
    /\ pc[c] = "sent"
    /\ commandEvent' = FALSE
    /\ commandResponse' = 0
    /\ pc' = [pc EXCEPT ![c] = "w_wait"]
    /\ last' = "wait_start"
    /\ UNCHANGED <<connected, authenticated, sock, conns, txCipher, rxCipher,
                   readerTask, pingTask, readers, pings, woken, lock, lockQ,
                   loc, wire>>
    /\ UNCHANGED <<calls, connectRaised, rxBytes>>
    /\ UNCHANGED <<protocolData, pure, cmd>>

\* The event was set while this caller waited: it resumes and returns
\* self._command_response as it is now.
WaitReturn(c) ==
    /\ pc[c] = "w_wait"
    /\ c \in woken
    /\ woken' = woken \ {c}
    /\ pc' = [pc EXCEPT ![c] = "idle"]
    /\ last' = IF commandResponse # 0 THEN "wait_response" ELSE "wait_none"
    /\ UNCHANGED <<connected, authenticated, sock, conns, txCipher, rxCipher,
                   readerTask, pingTask, readers, pings, commandResponse,
                   commandEvent, lock, lockQ, loc, wire>>
    /\ UNCHANGED <<calls, connectRaised, rxBytes>>
    /\ UNCHANGED <<protocolData, pure, cmd>>

\* Variant of HasTimeout: an Event.wait() with no timeout.
HasTimeout_Never == FALSE

\* wait_for() has a timeout.
HasTimeout == TRUE

\* Variant of ConnectedAfterTimeout: a timeout marks the session
\* disconnected.
ConnectedAfterTimeout_False == FALSE

\* self.connected after "except TimeoutError: return None": not assigned.
ConnectedAfterTimeout == connected

\* The timeout fired first: TimeoutError is caught and None is returned.
WaitTimeout(c) ==
    /\ pc[c] = "w_wait"
    /\ HasTimeout
    /\ connected' = ConnectedAfterTimeout
    /\ woken' = woken \ {c}
    /\ pc' = [pc EXCEPT ![c] = "idle"]
    /\ last' = "wait_timeout"
    /\ UNCHANGED <<authenticated, sock, conns, txCipher, rxCipher,
                   readerTask, pingTask, readers, pings, commandResponse,
                   commandEvent, lock, lockQ, loc, wire>>
    /\ UNCHANGED <<calls, connectRaised, rxBytes>>
    /\ UNCHANGED <<protocolData, pure, cmd>>

(***************************************************************************)
(* The system                                                              *)
(***************************************************************************)

\* A step of the client made outside async_send_command().
Keep(A) == A /\ UNCHANGED job

CallerStep(c) ==
    \/ Keep(ConnectOpened(c)) \/ Keep(ConnectOpenFail(c))
    \/ (\E r \in Replies : Keep(ConnectHandshakeOk(c, r)))
    \/ (\E r \in Replies : Keep(ConnectHandshakeFail(c, r)))
    \/ Keep(StartBackgroundReader(c))
    \/ Keep(DisconnectStart(c)) \/ Keep(DisconnectPingDone(c))
    \/ Keep(DisconnectReaderDone(c)) \/ Keep(DisconnectClosed(c))
    \/ (\E n \in CmdLens : Keep(SendStart(c, n))) \/ Keep(SendAcquire(c))
    \/ Keep(SendDrainOk(c)) \/ Keep(SendDrainFail(c))
    \/ Keep(WaitStart(c)) \/ Keep(WaitReturn(c)) \/ Keep(WaitTimeout(c))

TaskStep(t) ==
    \/ Keep(ReaderBegin(t))
    \/ (\E m \in Inputs, p \in Payloads : Keep(ReaderRecv(t, m, p)))
    \/ Keep(ReaderCancelled(t))
    \/ Keep(PingBegin(t)) \/ Keep(PingWake(t)) \/ Keep(PingDrainOk(t))
    \/ Keep(PingDrainFail(t)) \/ Keep(PingCancelled(t))

Next == (\E c \in Callers : CallerStep(c)) \/ (\E t \in TaskIds : TaskStep(t))

Spec == Init /\ [][Next]_vars

\* The timer of asyncio.wait_for() fires: a waiter cannot wait for ever.
FairSpec == Spec /\ \A c \in Callers : WF_vars(Keep(WaitTimeout(c)))

\* The session as the setup of the integration leaves it: connect() has
\* returned and start_background_reader() has created both loops.
InitSetup ==
    /\ connected = TRUE
    /\ authenticated = TRUE
    /\ sock = 1
    /\ conns = [n \in Conns |-> IF n = 1 THEN "open" ELSE "unused"]
    /\ txCipher = FreshCipher(1)
    /\ rxCipher = FreshCipher(1)
    /\ readerTask = 1
    /\ pingTask = 1
    /\ readers = [t \in TaskIds |-> IF t = 1 THEN NewTask ELSE NoTask]
    /\ pings = [t \in TaskIds |-> IF t = 1 THEN NewTask ELSE NoTask]
    /\ commandResponse = 0
    /\ commandEvent = FALSE
    /\ woken = {}
    /\ lock = 0
    /\ lockQ = <<>>
    /\ pc = [c \in Callers |-> "idle"]
    /\ loc = [c \in Callers |-> 0]
    /\ wire = <<Plain("MP-A")>>
    /\ calls = 0
    /\ connectRaised = FALSE
    /\ rxBytes = 0
    /\ last = "start_ok"
    /\ protocolData = EmptySink
    /\ pure = NoPure
    /\ cmd = NoCmd
    /\ job = NoJobs

\* The call of a service of the integration.
ServiceStep(c) ==
    \/ (\E n \in CmdLens : Keep(SendStart(c, n))) \/ Keep(SendAcquire(c))
    \/ Keep(SendDrainOk(c)) \/ Keep(SendDrainFail(c))
    \/ Keep(WaitStart(c)) \/ Keep(WaitReturn(c)) \/ Keep(WaitTimeout(c))

\* The two loops when no disconnect() cancels them.
LoopStep(t) ==
    \/ Keep(ReaderBegin(t))
    \/ (\E m \in Inputs, p \in Payloads : Keep(ReaderRecv(t, m, p)))
    \/ Keep(PingBegin(t)) \/ Keep(PingWake(t)) \/ Keep(PingDrainOk(t))
    \/ Keep(PingDrainFail(t))

ServiceNext ==
    (\E c \in Callers : ServiceStep(c)) \/ (\E t \in TaskIds : LoopStep(t))

\* The session after setup, with callers that call send_command() only.
ServiceSpec == InitSetup /\ [][ServiceNext]_vars

\* The session after a connect() that returned and a second connect() whose
\* open_connection() raised: the except clause has set connected to False
\* and nothing else, and start_background_reader() was never called.
InitRaised ==
    /\ connected = FALSE
    /\ authenticated = TRUE
    /\ sock = 1
    /\ conns = [n \in Conns |-> IF n = 1 THEN "open" ELSE "unused"]
    /\ txCipher = FreshCipher(1)
    /\ rxCipher = FreshCipher(1)
    /\ readerTask = 0
    /\ pingTask = 0
    /\ readers = [t \in TaskIds |-> NoTask]
    /\ pings = [t \in TaskIds |-> NoTask]
    /\ commandResponse = 0
    /\ commandEvent = FALSE
    /\ woken = {}
    /\ lock = 0
    /\ lockQ = <<>>
    /\ pc = [c \in Callers |-> "idle"]
    /\ loc = [c \in Callers |-> 0]
    /\ wire = <<Plain("MP-A")>>
    /\ calls = 0
    /\ connectRaised = TRUE
    /\ rxBytes = 0
    /\ last = "connect_failed"
    /\ protocolData = EmptySink
    /\ pure = NoPure
    /\ cmd = NoCmd
    /\ job = NoJobs

\* The session after a connect() that raised, with every call of the client.
RaisedSpec == InitRaised /\ [][Next]_vars

\* The calls that start and stop the loops, and the loops.
LifecycleStep(c) ==
    \/ Keep(StartBackgroundReader(c))
    \/ Keep(DisconnectStart(c)) \/ Keep(DisconnectPingDone(c))
    \/ Keep(DisconnectReaderDone(c)) \/ Keep(DisconnectClosed(c))

LifecycleNext ==
    (\E c \in Callers : LifecycleStep(c)) \/ (\E t \in TaskIds : TaskStep(t))

\* The session after setup, with callers that call start_background_reader()
\* and disconnect() only.
LifecycleSpec == InitSetup /\ [][LifecycleNext]_vars

(***************************************************************************)
(* OVMSDataCoordinator.async_send_command() and                            *)
(* _ensure_protocol_connection() on the client.  Each caller makes the     *)
(* call once; the calls run as concurrent tasks of one event loop.  A call *)
(* that returns from one method of the client and enters the next without  *)
(* suspending does so before any other task runs: the places in Urgent.    *)
(***************************************************************************)

Without(q, c) == SelectSeq(q, LAMBDA x : x # c)

\* The task is cancelled while it is suspended in send_command(), as
\* asyncio.timeout() of async_send_command() does when COMMAND_TIMEOUT has
\* passed.  CancelledError is no Exception, so the except clause is passed
\* by; "async with" releases the lock, a queued caller leaves the queue.
SendCancelled(c) ==
    /\ pc[c] \in {"s_lock", "s_drain"}
    /\ IF pc[c] = "s_drain"
       THEN lock' = LockAfterSend(c) /\ UNCHANGED lockQ
       ELSE lockQ' = Without(lockQ, c) /\ UNCHANGED lock
    /\ pc' = [pc EXCEPT ![c] = "idle"]
    /\ loc' = [loc EXCEPT ![c] = 0]
    /\ last' = "send_cancelled"
    /\ UNCHANGED <<connected, authenticated, sock, conns, txCipher, rxCipher,
                   readerTask, pingTask, readers, pings, commandResponse,
                   commandEvent, woken, wire>>
    /\ UNCHANGED <<calls, connectRaised, rxBytes>>
    /\ UNCHANGED <<protocolData, pure, cmd>>

\* Places of async_send_command() between two calls that no suspension
\* separates:
\*   entered  before the check of _ensure_protocol_connection()
\*   start    connect() returned, before start_background_reader()
\*   send     before send_command()
\*   sent     send_command() returned, before wait_for_command_response()
\*   failed   TimeoutError or OVMSConnectionError caught, before disconnect()
Urgent == {"entered", "start", "send", "sent", "failed"}
Calm == \A c \in Callers : job[c].at \notin Urgent

JobAt(c, a) == job' = [job EXCEPT ![c].at = a]
JobReturns(c, v) == job' = [job EXCEPT ![c].at = "returned", ![c].ret = v]

\* async_send_command() is called.
CommandEnter(c) ==
    /\ Calm
    /\ job[c].at = "none" /\ pc[c] = "idle"
    /\ JobAt(c, "entered")
    /\ last' = "command"
    /\ UNCHANGED <<connected, authenticated, sock, conns, txCipher, rxCipher,
                   readerTask, pingTask, readers, pings, commandResponse,
                   commandEvent, woken, lock, lockQ, pc, loc, wire, calls,
                   connectRaised, rxBytes, protocolData, pure, cmd>>

\* "if self.ovms_client.connected and self.ovms_client.authenticated:
\* return True"
EnsureReady(c) ==
    /\ job[c].at = "entered"
    /\ connected /\ authenticated
    /\ JobAt(c, "send")
    /\ last' = "ensure_ready"
    /\ UNCHANGED <<connected, authenticated, sock, conns, txCipher, rxCipher,
                   readerTask, pingTask, readers, pings, commandResponse,
                   commandEvent, woken, lock, lockQ, pc, loc, wire, calls,
                   connectRaised, rxBytes, protocolData, pure, cmd>>

\* Otherwise "await self.ovms_client.disconnect()" begins.
EnsureDisconnect(c) ==
    /\ job[c].at = "entered"
    /\ ~(connected /\ authenticated)
    /\ DisconnectStart(c)
    /\ JobAt(c, IF pc'[c] = "idle" THEN "connecting" ELSE "disconnecting")

\* A later step A of a disconnect() made by async_send_command(): the one of
\* _ensure_protocol_connection() is followed by connect(), the one of an
\* except clause by "return False".
InDisconnect(c, A) ==
    /\ Calm
    /\ job[c].at \in {"disconnecting", "closing"}
    /\ A
    /\ IF pc'[c] # "idle" THEN UNCHANGED job
       ELSE IF job[c].at = "disconnecting" THEN JobAt(c, "connecting")
       ELSE JobReturns(c, "false")

\* "await self.ovms_client.connect()": open_connection() returned.
EnsureOpened(c) ==
    /\ Calm
    /\ job[c].at = "connecting"
    /\ ConnectOpened(c)
    /\ job' = [job EXCEPT ![c].conn = sock']

\* connect() raised: _ensure_protocol_connection() returns False and so
\* does async_send_command().
EnsureFails(c, A) ==
    /\ Calm
    /\ job[c].at = "connecting"
    /\ A
    /\ JobReturns(c, "false")

\* connect() returned.
EnsureConnected(c, r) ==
    /\ Calm
    /\ job[c].at = "connecting"
    /\ ConnectHandshakeOk(c, r)
    /\ JobAt(c, "start")

\* "self.ovms_client.start_background_reader(); return True"
EnsureStart(c) ==
    /\ job[c].at = "start"
    /\ StartBackgroundReader(c)
    /\ JobAt(c, "send")

\* What follows a step of send_command(): it is suspended, it returned, or
\* it raised OVMSConnectionError.
AfterSend(c) ==
    JobAt(c, IF pc'[c] \in {"s_lock", "s_drain"} THEN "sending"
             ELSE IF pc'[c] = "sent" THEN "sent" ELSE "failed")

\* "await self.ovms_client.send_command(command)"
CommandSend(c, n) ==
    /\ job[c].at = "send"
    /\ SendStart(c, n)
    /\ AfterSend(c)

\* A later step A of that send_command(), the timeout of async_send_command()
\* among them.
InSend(c, A) ==
    /\ Calm
    /\ job[c].at = "sending"
    /\ A
    /\ AfterSend(c)

\* "response = await self.ovms_client.wait_for_command_response(...)"
CommandWait(c) ==
    /\ job[c].at = "sent"
    /\ WaitStart(c)
    /\ JobAt(c, "waiting")

\* wait_for_command_response() returned the response or None: "return True".
CommandReturns(c, A) ==
    /\ Calm
    /\ job[c].at = "waiting"
    /\ A
    /\ JobReturns(c, "true")

\* The timeout of async_send_command() ended the wait: TimeoutError.
CommandTimesOut(c) ==
    /\ Calm
    /\ job[c].at = "waiting"
    /\ WaitTimeout(c)
    /\ JobAt(c, "failed")

\* "except TimeoutError" / "except OVMSConnectionError":
\* "await self.ovms_client.disconnect(); return False".
CommandFailed(c) ==
    /\ job[c].at = "failed"
    /\ DisconnectStart(c)
    /\ IF pc'[c] = "idle" THEN JobReturns(c, "false") ELSE JobAt(c, "closing")

\* A step of a loop while no caller is at an urgent place.
Loop(A) == Calm /\ A /\ UNCHANGED job

CommandStep(c) ==
    \/ CommandEnter(c) \/ EnsureReady(c) \/ EnsureDisconnect(c)
    \/ InDisconnect(c, DisconnectPingDone(c))
    \/ InDisconnect(c, DisconnectReaderDone(c))
    \/ InDisconnect(c, DisconnectClosed(c))
    \/ EnsureOpened(c) \/ EnsureFails(c, ConnectOpenFail(c))
    \/ (\E r \in Replies : EnsureFails(c, ConnectHandshakeFail(c, r)))
    \/ (\E r \in Replies : EnsureConnected(c, r))
    \/ EnsureStart(c)
    \/ (\E n \in CmdLens : CommandSend(c, n))
    \/ InSend(c, SendAcquire(c)) \/ InSend(c, SendDrainOk(c))
    \/ InSend(c, SendDrainFail(c)) \/ InSend(c, SendCancelled(c))
    \/ CommandWait(c)
    \/ CommandReturns(c, WaitReturn(c)) \/ CommandReturns(c, WaitTimeout(c))
    \/ CommandTimesOut(c)
    \/ CommandFailed(c)

\* The loops during the calls: the reader gets command responses and the end
\* of the stream; the ping loop sleeps (PING_INTERVAL is six times
\* COMMAND_TIMEOUT) until it is cancelled.
CommandInputs == {"eof", "c"}

CommandLoopStep(t) ==
    \/ Loop(ReaderBegin(t))
    \/ (\E m \in CommandInputs : Loop(ReaderRecv(t, m, <<>>)))
    \/ Loop(ReaderCancelled(t))
    \/ Loop(PingBegin(t)) \/ Loop(PingCancelled(t))

CoordinatorNext ==
    (\E c \in Callers : CommandStep(c)) \/ (\E t \in TaskIds : CommandLoopStep(t))

\* The session after setup, with callers that call async_send_command().
CoordinatorSpec == InitSetup /\ [][CoordinatorNext]_vars

\* send_command() and wait_for_command_response() with callers that can be
\* cancelled while they are suspended in send_command().  A send_command()
\* is followed only when the wire has room for its line and for the lines of
\* the callers queued before it; the ping loop sleeps.
Room == Len(wire) + Len(lockQ) < MaxWire

LockStep(c) ==
    \/ (\E n \in CmdLens : Room /\ Keep(SendStart(c, n)))
    \/ Keep(SendAcquire(c))
    \/ Keep(SendDrainOk(c)) \/ Keep(SendDrainFail(c)) \/ Keep(SendCancelled(c))
    \/ Keep(WaitStart(c)) \/ Keep(WaitReturn(c)) \/ Keep(WaitTimeout(c))

LockLoopStep(t) ==
    \/ Keep(ReaderBegin(t))
    \/ (\E m \in Inputs, p \in Payloads : Keep(ReaderRecv(t, m, p)))
    \/ Keep(PingBegin(t))

LockNext ==
    (\E c \in Callers : LockStep(c)) \/ (\E t \in TaskIds : LockLoopStep(t))

\* A drain() ends: it returns, it raises, or its task is cancelled.
DrainEnds(c) ==
    /\ pc[c] = "s_drain"
    /\ SendDrainOk(c) \/ SendDrainFail(c) \/ SendCancelled(c)
    /\ UNCHANGED job

\* The event loop runs the first waiter of a released lock, and every
\* drain() ends.
LockSpec ==
    /\ InitSetup
    /\ [][LockNext]_vars
    /\ \A c \in Callers : WF_vars(Keep(SendAcquire(c))) /\ WF_vars(DrainEnds(c))

(***************************************************************************)
(* The message handlers on their own: a handler is called with a payload   *)
(* on a sink, and what it did is recorded.                                 *)
(***************************************************************************)

\* Number of comma-separated fields of the payloads given to each handler.
MaxCFields == 4
MaxFFields == 12
MaxDFields == 19

\* Fields of command responses.
CommandFields ==
    {<<>>, <<"0">>, <<"2">>, <<"5">>, <<"2", "6">>, <<"x">>, <<"y">>,
     <<"O", "K">>, <<"sup2">>}

\* Payloads "<code>,<result>[,<message>]" and others of up to MaxCFields
\* fields.
CommandPayloads ==
    {Join(f) : f \in UNION {[1..k -> CommandFields] : k \in 1..MaxCFields}}

\* A field for each position of an F payload; the third (signal quality)
\* comes from SignalFields.
FirmwareSample ==
    << <<"v", "3", ".", "2", ".", "1">>, <<"1", "F", "A", "D", "P", "3">>,
       <<"-", "7", "0">>, <<"1">>, <<"T", "e", "s", "l", "a">>, <<"p">>,
       <<"9">>, <<"9">>, <<"H", "W">>,
       <<"E", "S", "P", "3", "2", "-", "v", "1">>, <<"x">> >>

SignalFields ==
    {<<"-", "7", "0">>, <<"1", ".", "9">>, <<"-", "1", ".", "9">>, <<"x">>,
     <<"i", "n", "f">>}

\* The field of position i when the positions in S are filled.
FirmwareField(i, S, signal) ==
    IF i \notin S THEN <<>>
    ELSE IF i = 3 THEN signal
    ELSE IF i <= Len(FirmwareSample) THEN FirmwareSample[i]
    ELSE <<"4", "G">>

\* F payloads of up to MaxFFields fields, each empty or filled.
FirmwarePayloads ==
    {Join([i \in 1..k |-> FirmwareField(i, S, g)]) :
        k \in 1..MaxFFields, S \in SUBSET (1..MaxFFields), g \in SignalFields}

\* Fields at index 17 of a D payload, and at every other index.
DoorsFields ==
    {<<>>, <<"0">>, <<"6", "4">>, <<"1", "2", "8">>, <<"1", "9", "2">>,
     <<"2", "5", "5">>, <<"-", "1">>, <<"-", "1", "2", "9">>, <<"x">>,
     <<"1", ".", "5">>, <<"sup2">>}
OtherFields == {<<>>, <<"0">>, <<"1", "2", "8">>}

\* D payloads of up to MaxDFields fields.
EnvironmentPayloads ==
    {Join([i \in 1..k |-> IF i = Doors5Index + 1 THEN d ELSE o]) :
        k \in 1..MaxDFields, d \in DoorsFields, o \in OtherFields}

\* A sink that earlier messages have filled.
FilledSink ==
    [k \in SinkKeys |->
        CASE k = "car_gsm_signal" -> Some(-1)
          [] k = "hvac" -> Some(TRUE)
          [] OTHER -> Some(<<"o", "l", "d">>)]

\* A handler about to be called with a payload, and the sink at that moment.
HandlerCall(tag, payload, sink) ==
    [fn |-> "handler", tag |-> tag, payload |-> payload, sink |-> sink,
     ph |-> "call", out |-> Returned(sink, None)]

HandlerInit ==
    /\ SessionInit
    /\ pure \in
         {HandlerCall("c", p, k) : p \in CommandPayloads, k \in {EmptySink}}
         \cup {HandlerCall("F", p, k) : p \in FirmwarePayloads, k \in {EmptySink, FilledSink}}
         \cup {HandlerCall("D", p, k) : p \in EnvironmentPayloads, k \in {EmptySink, FilledSink}}

\* The values of the variables of the session: the handlers are checked on
\* their own.
sessionVars ==
    <<connected, authenticated, sock, conns, txCipher, rxCipher, readerTask,
      pingTask, readers, pings, commandResponse, commandEvent, woken, lock,
      lockQ, pc, loc, wire, calls, connectRaised, rxBytes, last, protocolData,
      cmd, job>>

HandleCommandResponseCall ==
    /\ pure.fn = "handler" /\ pure.ph = "call" /\ pure.tag = "c"
    /\ pure' = [pure EXCEPT !.ph = "done",
                            !.out = HandleCommandResponse(pure.sink, None, pure.payload)]
    /\ UNCHANGED sessionVars

ParseFirmwareCall ==
    /\ pure.fn = "handler" /\ pure.ph = "call" /\ pure.tag = "F"
    /\ pure' = [pure EXCEPT !.ph = "done",
                            !.out = ParseFirmware(pure.sink, None, pure.payload)]
    /\ UNCHANGED sessionVars

ParseEnvironmentCall ==
    /\ pure.fn = "handler" /\ pure.ph = "call" /\ pure.tag = "D"
    /\ pure' = [pure EXCEPT !.ph = "done",
                            !.out = ParseEnvironment(pure.sink, None, pure.payload)]
    /\ UNCHANGED sessionVars

HandlerNext == HandleCommandResponseCall \/ ParseFirmwareCall \/ ParseEnvironmentCall

HandlerSpec == HandlerInit /\ [][HandlerNext]_vars

(***************************************************************************)
(* class RC4 on its own: two objects are built from one key and primed,    *)
(* then messages are run through them.  The two long loops (256 rounds of  *)
(* key scheduling, 1024 bytes of priming) take one step per iteration; a   *)
(* message is run through crypt() in one step.                             *)
(***************************************************************************)

\* Number of bytes of the longest message, and of messages run through one
\* pair of objects.
MaxMsg == 2
MaxRounds == 2

\* "self.state = list(range(256))", and "% 256" throughout.
StateSize == 256

\* Keys (bytes objects; the session derives a 16-byte digest).
Keys == {<<1>>, <<255, 3>>, <<75, 101, 121>>}
\* Byte values of the messages.
MsgBytes == {0, 77, 255}
Msgs == UNION {[1..n -> MsgBytes] : n \in 0..MaxMsg}

\* a ^ b
RECURSIVE Xor(_, _)
Xor(a, b) ==
    IF a = 0 /\ b = 0 THEN 0
    ELSE ((a + b) % 2) + 2 * Xor(a \div 2, b \div 2)

\* "self.state[i], self.state[j] = self.state[j], self.state[i]"
Swap(st, i, j) == [st EXCEPT ![i] = st[j], ![j] = st[i]]

\* The object as __init__ has it before the key scheduling loop.
FreshRC4 == [state |-> [n \in 0..(StateSize - 1) |-> n], x |-> 0, y |-> 0]
NoRC4 == [state |-> <<>>, x |-> 0, y |-> 0]

\* One round of the key scheduling loop: the new j.
KsaJ(obj, key, i, j) == (j + obj.state[i] + key[(i % Len(key)) + 1]) % StateSize

\* Variant of CryptStart: every call starts the keystream again.
CryptStart_Restart(obj) == [obj EXCEPT !.x = 0, !.y = 0]

\* crypt() before its loop: "result = bytearray()", nothing of the object
\* is assigned.
CryptStart(obj) == obj

\* One iteration of the loop of crypt(): the object after it, and the byte
\* appended to the result.
CryptByte(obj, byte) ==
    LET x == (obj.x + 1) % StateSize
        y == (obj.y + obj.state[x]) % StateSize
        st == Swap(obj.state, x, y)
        k == st[(st[x] + st[y]) % StateSize]
    IN  [cipher |-> [state |-> st, x |-> x, y |-> y], out |-> Xor(byte, k)]

RECURSIVE CryptLoop(_, _, _, _)
CryptLoop(obj, data, i, result) ==
    IF i > Len(data) THEN [cipher |-> obj, out |-> result]
    ELSE LET r == CryptByte(obj, data[i])
         IN  CryptLoop(r.cipher, data, i + 1, Append(result, r.out))

\* obj.crypt(data): the object after the call, and the bytes returned.
RC4Crypt(obj, data) == CryptLoop(CryptStart(obj), data, 1, <<>>)

NoResult == [cipher |-> NoRC4, out |-> <<>>]

\* Variant of PrimeBytes: only the first object is primed.
PrimeBytes_FirstOnly(which) == IF which = "one" THEN Prime ELSE 0

\* "prime_data = bytes(1024)": the same for both objects.
PrimeBytes(which) == Prime

RC4Init ==
    /\ SessionInit
    /\ pure \in {[fn |-> "rc4", key |-> k, ph |-> "start", cur |-> "one",
                  i |-> 0, j |-> 0, one |-> NoRC4, two |-> NoRC4,
                  round |-> 0, msg |-> <<>>, cut |-> 0, whole |-> NoResult,
                  first |-> NoResult, second |-> NoResult, back |-> NoResult] :
                    k \in Keys}

\* RC4(key) as far as the key scheduling loop.
RC4New ==
    /\ pure.fn = "rc4" /\ pure.ph = "start"
    /\ pure' = [pure EXCEPT ![pure.cur] = FreshRC4, !.i = 0, !.j = 0, !.ph = "ksa"]
    /\ UNCHANGED sessionVars

\* One round of "for i in range(256)".
KsaRound ==
    /\ pure.fn = "rc4" /\ pure.ph = "ksa" /\ pure.i < StateSize
    /\ LET obj == pure[pure.cur]
           j == KsaJ(obj, pure.key, pure.i, pure.j)
       IN  pure' = [pure EXCEPT ![pure.cur].state = Swap(obj.state, pure.i, j),
                                !.i = pure.i + 1, !.j = j]
    /\ UNCHANGED sessionVars

\* The loop is over: the object is built, and crypt(prime_data) starts.
KsaEnd ==
    /\ pure.fn = "rc4" /\ pure.ph = "ksa" /\ pure.i = StateSize
    /\ pure' = [pure EXCEPT ![pure.cur] = CryptStart(pure[pure.cur]),
                            !.i = 0, !.ph = "prime"]
    /\ UNCHANGED sessionVars

\* One iteration of the loop of crypt(prime_data): a zero byte.
PrimeByte ==
    /\ pure.fn = "rc4" /\ pure.ph = "prime" /\ pure.i < PrimeBytes(pure.cur)
    /\ pure' = [pure EXCEPT ![pure.cur] = CryptByte(pure[pure.cur], 0).cipher,
                            !.i = pure.i + 1]
    /\ UNCHANGED sessionVars

\* crypt(prime_data) returns: the second object is built next, or both are
\* ready.
PrimeEnd ==
    /\ pure.fn = "rc4" /\ pure.ph = "prime" /\ pure.i = PrimeBytes(pure.cur)
    /\ pure' = IF pure.cur = "one"
               THEN [pure EXCEPT !.cur = "two", !.ph = "start", !.i = 0]
               ELSE [pure EXCEPT !.ph = "ready", !.i = 0]
    /\ UNCHANGED sessionVars

\* one.crypt(m), for a message m that is marked at cut.
CryptWhole(m, cut) ==
    /\ pure.fn = "rc4" /\ pure.ph = "ready" /\ pure.round < MaxRounds
    /\ pure' = [pure EXCEPT !.round = pure.round + 1, !.msg = m, !.cut = cut,
                            !.whole = RC4Crypt(pure.one, m), !.ph = "whole"]
    /\ UNCHANGED sessionVars

\* From the same state: crypt() of the bytes before the mark,
CryptFirst ==
    /\ pure.fn = "rc4" /\ pure.ph = "whole"
    /\ pure' = [pure EXCEPT !.first = RC4Crypt(pure.one, SubSeq(pure.msg, 1, pure.cut)),
                            !.ph = "first"]
    /\ UNCHANGED sessionVars

\* and then crypt() of the bytes behind it.
CryptSecond ==
    /\ pure.fn = "rc4" /\ pure.ph = "first"
    /\ pure' = [pure EXCEPT
                   !.second = RC4Crypt(pure.first.cipher,
                                       SubSeq(pure.msg, pure.cut + 1, Len(pure.msg))),
                   !.ph = "second"]
    /\ UNCHANGED sessionVars

\* two.crypt(what one.crypt(m) returned).
CryptBack ==
    /\ pure.fn = "rc4" /\ pure.ph = "second"
    /\ pure' = [pure EXCEPT !.back = RC4Crypt(pure.two, pure.whole.out), !.ph = "back"]
    /\ UNCHANGED sessionVars

\* Both objects go on from where the message left them.
CryptNext ==
    /\ pure.fn = "rc4" /\ pure.ph = "back"
    /\ pure' = [pure EXCEPT !.one = pure.whole.cipher, !.two = pure.back.cipher,
                            !.ph = "ready"]
    /\ UNCHANGED sessionVars

RC4Next ==
    \/ RC4New \/ KsaRound \/ KsaEnd \/ PrimeByte \/ PrimeEnd
    \/ (\E m \in Msgs : \E cut \in 0..Len(m) : CryptWhole(m, cut))
    \/ CryptFirst \/ CryptSecond \/ CryptBack \/ CryptNext

RC4Spec == RC4Init /\ [][RC4Next]_vars

(***************************************************************************)
(* OVMSDataCoordinator.async_send_command on its own: what it returns for  *)
(* each outcome of the calls it awaits.                                    *)
(***************************************************************************)

\* Command strings, e.g. "26,1" for climate on.
Commands == {"26,1", "26,0", "5,2"}

\* Response dicts that wait_for_command_response() can return.
Responses ==
    {Response(Some(26), Some(0), <<"O", "K">>), Response(Some(26), Some(1), <<>>),
     Response(Some(5), Some(2), <<>>), Response(None, None, <<>>)}

CommandInit ==
    /\ SessionInit
    /\ pure \in {[fn |-> "command", command |-> c, client |-> cl, ready |-> rd,
                  ph |-> "call", sent |-> FALSE, response |-> None,
                  disconnected |-> FALSE, ret |-> None] :
                    c \in Commands, cl \in BOOLEAN, rd \in BOOLEAN}

\* "return True" / "return False"
Return(v) == [pure EXCEPT !.ph = "returned", !.ret = Some(v)]

\* The except clauses for TimeoutError and OVMSConnectionError:
\* "await self.ovms_client.disconnect(); return False".
DisconnectAndReturn == [Return(FALSE) EXCEPT !.disconnected = TRUE]

\* "if not self.ovms_client: return False", else _ensure_protocol_connection().
CommandCall ==
    /\ pure.fn = "command" /\ pure.ph = "call"
    /\ pure' = IF ~pure.client THEN Return(FALSE) ELSE [pure EXCEPT !.ph = "ensure"]
    /\ UNCHANGED sessionVars

\* _ensure_protocol_connection() returned: True at once for a session that
\* is connected and authenticated, else what the reconnect gave.
EnsureReturns(ok) ==
    /\ pure.fn = "command" /\ pure.ph = "ensure"
    /\ pure.ready => ok
    /\ pure' = IF ok THEN [pure EXCEPT !.ph = "send"] ELSE Return(FALSE)
    /\ UNCHANGED sessionVars

\* send_command() returned: the line is written.
SendReturns ==
    /\ pure.fn = "command" /\ pure.ph = "send"
    /\ pure' = [pure EXCEPT !.sent = TRUE, !.ph = "wait"]
    /\ UNCHANGED sessionVars

\* send_command() raised OVMSConnectionError.
SendRaises ==
    /\ pure.fn = "command" /\ pure.ph = "send"
    /\ pure' = DisconnectAndReturn
    /\ UNCHANGED sessionVars

\* wait_for_command_response(timeout=COMMAND_TIMEOUT - 1) returned r, a
\* response or None: both branches only log, and the refresh comes next.
AfterWait(r) == [pure EXCEPT !.response = r, !.ph = "refresh"]

WaitReturns(r) ==
    /\ pure.fn = "command" /\ pure.ph = "wait"
    /\ pure' = AfterWait(r)
    /\ UNCHANGED sessionVars

\* async_request_refresh() returned: "return True".
RefreshReturns ==
    /\ pure.fn = "command" /\ pure.ph = "refresh"
    /\ pure' = Return(TRUE)
    /\ UNCHANGED sessionVars

\* asyncio.timeout(COMMAND_TIMEOUT) expired at one of the three awaits.
CommandTimeout ==
    /\ pure.fn = "command" /\ pure.ph \in {"send", "wait", "refresh"}
    /\ pure' = DisconnectAndReturn
    /\ UNCHANGED sessionVars

CommandNext ==
    \/ CommandCall
    \/ (\E ok \in BOOLEAN : EnsureReturns(ok))
    \/ SendReturns \/ SendRaises
    \/ (\E r \in {None} \cup {Some(x) : x \in Responses} : WaitReturns(r))
    \/ RefreshReturns
    \/ CommandTimeout

CommandSpec == CommandInit /\ [][CommandNext]_vars

(***************************************************************************)
(* OVMSApiClient._request(), login() and logout()  (api.py)                *)
(***************************************************************************)

\* The most request attempts one call is followed through.
MaxAttempts == 3

\* The endpoints, methods, response statuses and session cookies of a call.
Endpoints == {"/api/cookie", "/api/vehicles", "/api/status"}
Methods == {"GET", "DELETE"}
Statuses == {200, 401, 403, 404, 500, 502}
Cookies == {None, Some("s1")}

\* Variant of RetryAfterLogin that hands the caller's flag on.
RetryAfterLogin_Same(retry) == retry

\* retry_on_auth_failure of the request re-issued after login().
RetryAfterLogin(retry) == FALSE

\* The condition of the re-authentication branch of _request().
ShouldReauth(status, retry, endpoint) ==
    status = 404 /\ retry /\ endpoint # "/api/cookie"

\* The exception _request() raises for a response status, None for none.
StatusError(status) ==
    IF status = 401 THEN Some(<<"OVMSAuthenticationError", "Authentication failed">>)
    ELSE IF status = 403 THEN Some(<<"OVMSAPIError", "Forbidden access">>)
    ELSE IF status = 404 THEN Some(<<"OVMSAPIError", "Endpoint not found">>)
    ELSE IF status = 502 THEN Some(<<"OVMSAPIError", "Bad gateway">>)
    ELSE IF status >= 400 THEN Some(<<"OVMSAPIError", "HTTP">>)
    ELSE None

\* A call of _request(), made directly or by logout(), before its first
\* statement.  session is "self.session is not None".
RequestInit ==
    /\ SessionInit
    /\ pure \in
         {[fn |-> "request", method |-> m, endpoint |-> e, retry |-> r,
           session |-> s, sessionId |-> k, logout |-> FALSE, ph |-> "call",
           attempts |-> 0, logins |-> 0, status |-> 0, exc |-> None] :
             m \in Methods, e \in Endpoints, r \in BOOLEAN, s \in BOOLEAN,
             k \in Cookies}
         \cup
         {[fn |-> "request", method |-> "DELETE", endpoint |-> "/api/cookie",
           retry |-> TRUE, session |-> s, sessionId |-> k, logout |-> TRUE,
           ph |-> "call", attempts |-> 0, logins |-> 0, status |-> 0,
           exc |-> None] : s \in BOOLEAN, k \in Cookies}

RequestRaises(p, e) == [p EXCEPT !.ph = "raised", !.exc = Some(e)]

\* _request() without a session raises before any request is made.
RequestNoSession ==
    /\ pure.fn = "request" /\ pure.ph = "call" /\ ~pure.session
    /\ pure' = RequestRaises(pure, <<"OVMSConnectionError", "Not connected">>)
    /\ UNCHANGED sessionVars

\* One request attempt that ends without a response: TimeoutError or
\* aiohttp.ClientError, re-raised as OVMSConnectionError.
RequestFails ==
    /\ pure.fn = "request" /\ pure.ph = "call" /\ pure.session
    /\ pure.attempts < MaxAttempts
    /\ pure' = RequestRaises([pure EXCEPT !.attempts = @ + 1, !.status = 0],
                      <<"OVMSConnectionError", "Connection error">>)
    /\ UNCHANGED sessionVars

\* One request attempt answered with a status: the re-authentication branch,
\* the error statuses, or the parsed body.
RequestResponds(status) ==
    /\ pure.fn = "request" /\ pure.ph = "call" /\ pure.session
    /\ pure.attempts < MaxAttempts
    /\ LET p == [pure EXCEPT !.attempts = @ + 1, !.status = status]
       IN  pure' = IF ShouldReauth(status, pure.retry, pure.endpoint)
                     THEN [p EXCEPT !.ph = "login"]
                   ELSE IF StatusError(status) # None
                     THEN RequestRaises(p, StatusError(status)[1])
                   ELSE [p EXCEPT !.ph = "returned"]
    /\ UNCHANGED sessionVars

\* "await self.login()" inside _request(): a new cookie and the request
\* issued again, or OVMSAuthenticationError out of _request().
RequestLogin(ok) ==
    /\ pure.fn = "request" /\ pure.ph = "login"
    /\ LET p == [pure EXCEPT !.logins = @ + 1]
       IN  pure' = IF ok
                     THEN [p EXCEPT !.ph = "call", !.sessionId = Some("s2"),
                                    !.retry = RetryAfterLogin(pure.retry)]
                     ELSE RequestRaises(p, <<"OVMSAuthenticationError", "Login failed">>)
    /\ UNCHANGED sessionVars

\* logout() after its _request() call: OVMSAPIError is swallowed, any other
\* exception goes on, and the cookie is dropped either way.
LogoutDone ==
    /\ pure.fn = "request" /\ pure.logout /\ pure.ph \in {"returned", "raised"}
    /\ pure' = [pure EXCEPT
                  !.ph = "logged_out", !.sessionId = None,
                  !.exc = IF pure.exc # None /\ pure.exc[1][1] = "OVMSAPIError"
                            THEN None ELSE @]
    /\ UNCHANGED sessionVars

RequestNext ==
    \/ RequestNoSession
    \/ RequestFails
    \/ (\E status \in Statuses : RequestResponds(status))
    \/ (\E ok \in BOOLEAN : RequestLogin(ok))
    \/ LogoutDone

RequestSpec == RequestInit /\ [][RequestNext]_vars

(***************************************************************************)
(* Properties                                                              *)
(***************************************************************************)

Ready == connected /\ authenticated
Dead == ~connected /\ ~authenticated

\* Callers whose command has been written and whose response has neither
\* been returned by wait_for_command_response() nor timed out.
Outstanding == {c \in Callers : pc[c] \in {"s_drain", "sent", "w_wait"}}

ReaderAlive(t) == readers[t].st \in {"new", "wait", "cancelling"}
PingAlive(t) == pings[t].st \in {"new", "sleep", "drain", "cancelling"}

\* C1: at most one command is outstanding at any time (a second
\* send_command writes nothing while an earlier command is unresolved).
C1_AtMostOneOutstanding == Cardinality(Outstanding) <= 1

\* C2: when the reader loop reads end-of-stream the session becomes Dead and
\* that loop is done; a caller suspended in wait_for_command_response at
\* that moment eventually returns, and a waiter to which no response was
\* delivered returns by the timeout, that is None.
C2_EofDeadAndWaiterReturns ==
    /\ [][last' = "reader_eof" =>
            /\ Dead'
            /\ \E t \in TaskIds : readers[t].st = "wait" /\ readers'[t].st = "done"]_vars
    /\ [][\A c \in Callers :
            (pc[c] = "w_wait" /\ pc'[c] # "w_wait" /\ c \notin woken)
                => last' = "wait_timeout"]_vars
    /\ \A c \in Callers :
          (last = "reader_eof" /\ pc[c] = "w_wait") ~> (pc[c] # "w_wait")

C2_Witness == last = "reader_eof" /\ \E c \in Callers : pc[c] = "w_wait" /\ c \notin woken

\* C3: send_command called when the session is not connected, or not
\* authenticated, or has no tx cipher, raises to its caller, writes nothing
\* and leaves the tx cipher as it was.
C3_SendRejectedWhenNotReady ==
    [][\A c \in Callers :
         ((\E n \in CmdLens : SendStart(c, n))
          /\ ~(connected /\ authenticated /\ txCipher # NoCipher))
            => /\ last' = "send_rejected"
               /\ pc'[c] = "idle"
               /\ wire' = wire
               /\ txCipher' = txCipher]_vars

C3_Witness == last = "send_rejected" /\ connected /\ ~authenticated

\* C4: when disconnect() has returned, no reader or ping loop is running,
\* the socket is closed, both ciphers are None, the pending response is
\* cleared with its event unset, and connected and authenticated are false.
C4_AfterDisconnect ==
    last \in {"disconnect_done", "disconnect_again"} =>
        /\ \A t \in TaskIds : ~ReaderAlive(t) /\ ~PingAlive(t)
        /\ sock = 0 \/ conns[sock] = "closed"
        /\ txCipher = NoCipher /\ rxCipher = NoCipher
        /\ commandResponse = 0 /\ ~commandEvent
        /\ Dead

\* C5: disconnect() is idempotent: called on a session that a completed
\* disconnect() (or construction) left disconnected, it returns without
\* suspending and without raising, and changes no field of the session.
C5_DisconnectIdempotent ==
    [][\A c \in Callers :
         (DisconnectStart(c) /\ Settled)
            => /\ pc'[c] = "idle"
               /\ last' = "disconnect_again"
               /\ UNCHANGED session]_vars

C5_Witness == last = "disconnect_again" /\ sock # 0 /\ calls >= 3

\* C6: no reader or ping loop reads, decodes, encodes or writes once
\* disconnect() has closed the socket or cleared the ciphers.
C6_NoLoopStepAfterRelease ==
    [][last' \in {"reader_begin", "reader_line", "reader_response",
                  "reader_blank", "reader_skipped", "reader_fatal",
                  "reader_raised", "reader_ignored", "reader_eof",
                  "ping_written", "ping_ok", "ping_failed"}
         => ~(\/ sock # 0 /\ conns[sock] # "open"
              \/ sock # 0 /\ txCipher = NoCipher /\ rxCipher = NoCipher)]_vars

\* C7: start_background_reader called when the session is not connected or
\* not authenticated starts no loop and changes no field of the session.
C7_StartRejectedWhenNotReady ==
    [][\A c \in Callers :
         (StartBackgroundReader(c) /\ ~(connected /\ authenticated))
            => /\ last' = "start_rejected"
               /\ UNCHANGED session]_vars

C7_Witness == last = "start_rejected" /\ connected /\ ~authenticated

\* C8: a session that is not Ready becomes Ready only by a step of connect():
\* no loop step, send_command, wait_for_command_response,
\* start_background_reader or disconnect makes it Ready.
C8_OnlyConnectMakesReady ==
    [][(~Ready /\ Ready')
         => last' \in {"connect_opened", "connect_ok", "connect_ok_mismatch"}]_vars

C8_Witness ==
    /\ Ready /\ last = "connect_ok" /\ sock = 2
    /\ readers[1].st = "done" /\ conns[1] = "open"

\* C9: a read error, a raw line that is not UTF-8, invalid base64 or a
\* missing rx cipher ends the reader loop and leaves the session Dead; a
\* loop that has ended never reads again.
C9_ReaderFailureIsFatal ==
    /\ [][\A t \in TaskIds : \A m \in Inputs :
            (/\ readers[t].st = "wait"
             /\ \/ m \in {"err", "badutf8", "badb64"}
                \/ m \in {"nonmp", "c", "F", "D", "other"} /\ rxCipher = NoCipher
             /\ \E p \in Payloads : ReaderRecv(t, m, p))
               => readers'[t].st = "done" /\ Dead' /\ rxCipher' = rxCipher]_vars
    /\ [][\A t \in TaskIds : readers[t].st = "done" => readers'[t].st = "done"]_vars

C9_Witness == last = "reader_fatal" /\ Dead /\ rxCipher # NoCipher

\* C10: a failure of the heartbeat write ends the ping loop and leaves the
\* session Dead; the loop opens no connection and builds no cipher.
C10_PingFailureIsFatal ==
    [][last' = "ping_failed" =>
         /\ Dead'
         /\ \E t \in TaskIds : pings[t].st \in {"sleep", "drain"} /\ pings'[t].st = "done"
         /\ UNCHANGED <<sock, conns, rxCipher, txCipher, readerTask, pingTask>>]_vars

C10_Witness == last = "ping_failed" /\ Dead

\* C11: a failure of the write of send_command (drain() raises) leaves the
\* session Dead.
C11_SendWriteFailureIsFatal ==
    [][\A c \in Callers : SendDrainFail(c) => Dead']_vars

\* C12: a wait_for_command_response that times out returns None without
\* raising, and neither its first part nor the timeout changes connected,
\* authenticated, the socket, a cipher or a loop.
C12_TimeoutLeavesSession ==
    [][\A c \in Callers :
         /\ WaitTimeout(c) => last' = "wait_timeout" /\ pc'[c] = "idle"
         /\ (WaitStart(c) \/ WaitTimeout(c))
               => UNCHANGED <<connected, authenticated, sock, conns, txCipher,
                              rxCipher, readerTask, pingTask, readers, pings,
                              wire>>]_vars

C12_Witness ==
    /\ last = "wait_timeout" /\ Ready /\ conns[sock] = "open"
    /\ \E t \in TaskIds : readers[t].st = "wait"

\* Callers suspended in wait_for_command_response that no response has
\* woken yet.
Unwoken == Waiting \ woken

\* C13: a command response handled while callers are suspended in
\* wait_for_command_response wakes exactly one of them.
C13_ExactlyOneWaiterWoken ==
    [][(last' = "reader_response" /\ Unwoken # {})
          => Cardinality(woken' \ woken) = 1]_vars

\* C14: the lines that one tx cipher encoded are on the socket in the order
\* in which it encoded them, and every step that advances the tx cipher
\* writes the line it encoded behind all earlier lines in the same step.
C14_EncodeOrderIsWriteOrder ==
    /\ [](\A i, j \in 1..Len(wire) :
            (i < j /\ wire[i].key # 0 /\ wire[i].key = wire[j].key)
               => wire[i].pos < wire[j].pos)
    /\ [][(txCipher' # txCipher /\ txCipher.key # 0 /\ txCipher'.key = txCipher.key)
            => /\ txCipher'.pos > txCipher.pos
               /\ Len(wire') = Len(wire) + 1
               /\ SubSeq(wire', 1, Len(wire)) = wire
               /\ wire'[Len(wire')].key = txCipher.key
               /\ wire'[Len(wire')].pos = txCipher.pos]_vars

C14_Witness ==
    /\ Len(wire) = 3
    /\ wire[2].key = wire[3].key
    /\ {wire[2].tag, wire[3].tag} = {"A", "C"}

\* The inputs of the reader loop that are non-empty lines which decode.
Decodable == {"nonmp", "c", "F", "D", "other"}

\* C15: the rx cipher stands at 1024 plus the bytes of the lines the reader
\* loop decoded with it, lines without the preamble and lines of ignored tags
\* included; only the reader loop advances it; a line without the preamble
\* leaves a Ready session Ready and the loop running.
C15_RxPositionCountsEveryLine ==
    /\ [](rxCipher # NoCipher => rxCipher.pos = Prime + rxBytes)
    /\ [][(rxCipher' # rxCipher /\ rxCipher.key # 0 /\ rxCipher'.key = rxCipher.key)
            => last' \in {"reader_line", "reader_response", "reader_skipped",
                          "reader_raised", "reader_ignored"}]_vars
    /\ [][\A t \in TaskIds : \A p \in Payloads :
            (/\ readers[t].st = "wait" /\ Ready /\ rxCipher # NoCipher
             /\ ReaderRecv(t, "nonmp", p))
               => /\ Ready'
                  /\ readers'[t].st = "wait"
                  /\ last' = "reader_skipped"]_vars

C15_Witness ==
    /\ last = "reader_skipped" /\ Ready
    /\ rxCipher.pos > Prime + MsgLen(MaxPay)

\* The steps that end the handshake of connect().
HandshakeLabels == {"connect_ok", "connect_ok_mismatch", "connect_failed"}

\* C16: connect() succeeds only on a line of at least 4 parts whose first is
\* MP-A or MP-S and whose second is 0; for no line, a read error, a timeout
\* or any other line it raises, opens and writes nothing more, builds no
\* cipher and leaves connected false.
C16_HandshakeGate ==
    [][\A c \in Callers : \A r \in Replies :
         /\ (pc[c] = "c_hs" /\ last' \in HandshakeLabels /\ ConnectHandshakeOk(c, r))
               => /\ r.kind = "line"
                  /\ Len(r.parts) >= 4
                  /\ r.parts[1] \in {"MP-A", "MP-S"}
                  /\ r.parts[2] = "0"
         /\ (pc[c] = "c_hs" /\ last' \in HandshakeLabels /\ ConnectHandshakeFail(c, r))
               => /\ ~connected'
                  /\ last' = "connect_failed"
                  /\ pc'[c] = "idle"
                  /\ UNCHANGED <<txCipher, rxCipher, sock, conns, wire>>]_vars

C16_Witness ==
    /\ last = "connect_failed" /\ ~connected
    /\ sock # 0 /\ conns[sock] = "open"
    /\ txCipher = NoCipher /\ rxCipher = NoCipher

\* C17: on a well-formed server line connect() completes whether or not the
\* digest matches: authenticated is set, fresh ciphers are built, and the
\* session is Ready unless it was marked disconnected meanwhile.
C17_DigestMismatchAccepted ==
    [][\A c \in Callers : \A r \in Replies :
         (/\ pc[c] = "c_hs" /\ last' \in HandshakeLabels
          /\ r.kind = "line" /\ Len(r.parts) >= 4
          /\ r.parts[1] \in {"MP-A", "MP-S"} /\ r.parts[2] = "0"
          /\ ConnectHandshakeOk(c, r) \/ ConnectHandshakeFail(c, r))
            => /\ last' \in {"connect_ok", "connect_ok_mismatch"}
               /\ authenticated'
               /\ txCipher' = FreshCipher(loc[c]) /\ rxCipher' = FreshCipher(loc[c])
               /\ connected => Ready']_vars

C17_Witness == last = "connect_ok_mismatch" /\ Ready

\* C18: after a connect() that raised, and until a connect() succeeds,
\* send_command raises, start_background_reader starts no loop and no
\* encoded line is written.
C18_UnusableAfterFailedConnect ==
    [][connectRaised =>
         /\ \A c \in Callers :
               (\E n \in CmdLens : SendStart(c, n)) => last' = "send_rejected"
         /\ \A c \in Callers :
               StartBackgroundReader(c) => last' = "start_rejected"
         /\ last' \notin {"send_written", "ping_written"}]_vars

\* C19: encoding a line advances the tx cipher and leaves the rx cipher as
\* it is; decoding a line advances the rx cipher and leaves the tx cipher as
\* it is.
C19_CiphersIndependent ==
    [][/\ last' \in {"send_written", "ping_written"}
            => rxCipher' = rxCipher /\ txCipher'.pos > txCipher.pos
       /\ last' \in {"reader_line", "reader_response", "reader_skipped",
                     "reader_raised", "reader_ignored"}
            => txCipher' = txCipher /\ rxCipher'.pos > rxCipher.pos]_vars

C19_Witness ==
    /\ txCipher.key # 0 /\ txCipher.key = rxCipher.key
    /\ txCipher.pos > Prime /\ rxCipher.pos > Prime
    /\ txCipher.pos # rxCipher.pos

\* C20: at most one reader loop and at most one ping loop are alive.
C20_AtMostOneLoopOfEachKind ==
    /\ Cardinality({t \in TaskIds : ReaderAlive(t)}) <= 1
    /\ Cardinality({t \in TaskIds : PingAlive(t)}) <= 1
\* C21: a message run through an object built from a key and primed with
\* 1024 bytes, and the result run through a second object built from the
\* same key and primed the same way, gives the message back.
C21_RoundTrip ==
    (pure.fn = "rc4" /\ pure.ph = "back") => pure.back.out = pure.msg

\* "Key", and the bytes that the source's RC4("Key"), primed, returns for
\* crypt of the bytes 255, 0.
C21_Witness ==
    /\ pure.fn = "rc4" /\ pure.ph = "back" /\ pure.round = 1
    /\ pure.key = <<75, 101, 121>>
    /\ pure.msg = <<255, 0>>
    /\ pure.whole.out = <<53, 136>>
    /\ pure.back.out = <<255, 0>>

\* C22: crypt(a) and then crypt(b) on one object return the bytes that one
\* crypt(a ++ b) returns from the same state, and leave the object in the
\* same state.
C22_KeystreamContinues ==
    (pure.fn = "rc4" /\ pure.ph \in {"second", "back"}) =>
        /\ pure.first.out \o pure.second.out = pure.whole.out
        /\ pure.second.cipher = pure.whole.cipher

C22_Witness ==
    /\ pure.fn = "rc4" /\ pure.ph = "second" /\ pure.round = 2
    /\ Len(pure.msg) = 2 /\ pure.cut = 1
    /\ pure.first.cipher # pure.one
    /\ pure.second.cipher # pure.first.cipher

\* A handler has been called with this tag.
HandlerDone(tag) == pure.fn = "handler" /\ pure.tag = tag /\ pure.ph = "done"

\* A field that is an integer in decimal notation, and its value.
Numeric(s) == s # <<>> /\ \A i \in 1..Len(s) : s[i] \in {"0", "1", "2", "3", "4", "5", "6", "7", "8", "9"}
NumericOrNull(s) == IF Numeric(s) THEN Some(DecimalValue(s)) ELSE None

\* C23: parsing a command response never raises, and gives the first two
\* comma-separated parts as code and result (an integer when the part is
\* numeric, null otherwise) and everything behind the second comma as
\* message ("" when there is none); "26,0,OK" gives {26, 0, "OK"}, "5,2"
\* gives {5, 2, ""} and "x,y" gives {null, null, ""}.
C23_CommandResponseParsed ==
    HandlerDone("c") =>
        LET parts == Split(pure.payload, NoLimit)
            part(i) == IF Len(parts) >= i THEN parts[i] ELSE <<>>
        IN  /\ ~pure.out.raised
            /\ pure.out.response =
                  Some(Response(NumericOrNull(part(1)), NumericOrNull(part(2)),
                                Join(SubSeq(parts, 3, Len(parts)))))
            /\ pure.payload = <<"2", "6", ",", "0", ",", "O", "K">>
                  => pure.out.response = Some(Response(Some(26), Some(0), <<"O", "K">>))
            /\ pure.payload = <<"5", ",", "2">>
                  => pure.out.response = Some(Response(Some(5), Some(2), <<>>))
            /\ pure.payload = <<"x", ",", "y">>
                  => pure.out.response = Some(Response(None, None, <<>>))

\* The F payload "v3.2.1,1FADP3,-70,1,Tesla,,,,,ESP32-v1,,4G".
ExampleFirmware ==
    Join(<< <<"v", "3", ".", "2", ".", "1">>, <<"1", "F", "A", "D", "P", "3">>,
            <<"-", "7", "0">>, <<"1">>, <<"T", "e", "s", "l", "a">>, <<>>, <<>>,
            <<>>, <<>>, <<"E", "S", "P", "3", "2", "-", "v", "1">>, <<>>,
            <<"4", "G">> >>)

\* C24: the F payload "v3.2.1,1FADP3,-70,1,Tesla,,,,,ESP32-v1,,4G" puts
\* firmware "v3.2.1", VIN "1FADP3", signal -70 and car type "Tesla" into the
\* sink, and "ESP32-v1" (its field of index 9) as modem mode; its field of
\* index 8 is empty, so no hardware version is written, and "4G" (index 11)
\* is not extracted.
C24_FirmwareExample ==
    (HandlerDone("F") /\ pure.payload = ExampleFirmware) =>
        /\ ~pure.out.raised
        /\ pure.out.sink =
              [pure.sink EXCEPT
                  !["m_firmware"] = Some(<<"v", "3", ".", "2", ".", "1">>),
                  !["car_vin"] = Some(<<"1", "F", "A", "D", "P", "3">>),
                  !["car_gsm_signal"] = Some(-70),
                  !["car_type"] = Some(<<"T", "e", "s", "l", "a">>),
                  !["m_mdm_mode"] = Some(<<"E", "S", "P", "3", "2", "-", "v", "1">>)]

C24_Witness ==
    /\ HandlerDone("F") /\ pure.payload = ExampleFirmware
    /\ pure.sink = EmptySink
    /\ pure.out.sink["m_hardware"] = None

\* C24 as the specification states it: the same payload gives hardware
\* "ESP32-v1" and modem mode "4G".
C24_FirmwareExample_AsStated ==
    (HandlerDone("F") /\ pure.payload = ExampleFirmware) =>
        /\ pure.out.sink["m_firmware"] = Some(<<"v", "3", ".", "2", ".", "1">>)
        /\ pure.out.sink["car_vin"] = Some(<<"1", "F", "A", "D", "P", "3">>)
        /\ pure.out.sink["car_gsm_signal"] = Some(-70)
        /\ pure.out.sink["car_type"] = Some(<<"T", "e", "s", "l", "a">>)
        /\ pure.out.sink["m_hardware"] = Some(<<"E", "S", "P", "3", "2", "-", "v", "1">>)
        /\ pure.out.sink["m_mdm_mode"] = Some(<<"4", "G">>)

\* C25: an F message changes the keys of the fields at index 0, 1, 2, 4, 8
\* and 9 only, and each of them only if its field is there and not empty: a
\* key whose field is empty or absent keeps the value stored before, a
\* non-empty text field is stored as it is, and every other key is unchanged.
C25_FirmwareMergesNonEmptyFields ==
    HandlerDone("F") =>
        LET parts == Split(pure.payload, NoLimit)
            index == [m_firmware |-> 0, car_vin |-> 1, car_gsm_signal |-> 2,
                      car_type |-> 4, m_hardware |-> 8, m_mdm_mode |-> 9]
            given(k) == Len(parts) > index[k] /\ parts[index[k] + 1] # <<>>
        IN  \A k \in SinkKeys :
               /\ (k \notin DOMAIN index \/ ~given(k))
                     => pure.out.sink[k] = pure.sink[k]
               /\ (k \in DOMAIN index /\ given(k) /\ k # "car_gsm_signal" /\ ~pure.out.raised)
                     => pure.out.sink[k] = Some(parts[index[k] + 1])

C25_Witness ==
    /\ HandlerDone("F") /\ pure.sink = FilledSink
    /\ pure.out.sink["m_firmware"] = Some(<<"v", "3", ".", "2", ".", "1">>)
    /\ pure.out.sink["car_vin"] = pure.sink["car_vin"]
    /\ pure.out.sink["m_hardware"] = Some(<<"H", "W">>)
    /\ pure.out.sink["m_mdm_mode"] = pure.sink["m_mdm_mode"]
    /\ Len(Split(pure.payload, NoLimit)) = MaxFFields

\* C26: a D message of at least 18 fields whose field of index 17 is an
\* integer v sets 'hvac' to true exactly when bit 0x80 of v is set ("128"
\* gives true, "0" gives false); a D message of fewer than 18 fields leaves
\* 'hvac' as it was.
C26_EnvironmentSetsHvac ==
    HandlerDone("D") =>
        LET parts == Split(pure.payload, NoLimit)
            f == parts[18]
            v == IF f[1] = "-" THEN 0 - DecimalValue(Tail(f)) ELSE DecimalValue(f)
        IN  /\ ~pure.out.raised
            /\ (Len(parts) >= 18 /\ (Numeric(f) \/ (f # <<>> /\ f[1] = "-" /\ Numeric(Tail(f)))))
                  => pure.out.sink["hvac"] = Some((v % 256) >= 128)
            /\ (Len(parts) >= 18 /\ f = <<"1", "2", "8">>) => pure.out.sink["hvac"] = Some(TRUE)
            /\ (Len(parts) >= 18 /\ f = <<"0">>) => pure.out.sink["hvac"] = Some(FALSE)
            /\ Len(parts) < 18 => pure.out.sink["hvac"] = pure.sink["hvac"]

C26_Witness ==
    /\ HandlerDone("D") /\ pure.sink = FilledSink
    /\ Len(Split(pure.payload, NoLimit)) = 18
    /\ pure.sink["hvac"] = Some(TRUE)
    /\ pure.out.sink["hvac"] = Some(FALSE)
    /\ Split(pure.payload, NoLimit)[17] = <<"1", "2", "8">>
C28_OnlyReaderWritesSink ==
    [][protocolData' # protocolData
         => /\ last' \in {"reader_line", "reader_raised"}
            /\ \E t \in TaskIds : \E p \in Payloads :
                  /\ readers[t].st = "wait"
                  /\ ReaderRecv(t, "F", p) \/ ReaderRecv(t, "D", p)]_vars

C28_Witness ==
    /\ protocolData # EmptySink
    /\ last = "connect_ok" /\ sock = 2
    /\ \E t \in TaskIds : pings[t].st = "done"

\* C29: in a session that a reader failure, an end of stream or a failure of
\* the keepalive write has left Dead, the next step does not change the sink
\* and delivers no command response.
C29_DeadSessionStopsUpdating ==
    [][(Dead /\ last \in {"reader_eof", "reader_fatal", "reader_raised", "ping_failed"})
          => /\ protocolData' = protocolData
             /\ last' # "reader_response"]_vars
\* C30: async_send_command returns True only if the command was sent and a
\* response with result 0 was received, and it returns False when the
\* command could not be sent or no response arrived.
C30_TrueMeansAcknowledged ==
    (pure.fn = "command" /\ pure.ph = "returned") =>
        /\ pure.ret = Some(TRUE)
              => /\ pure.sent
                 /\ pure.response # None
                 /\ pure.response[1].result = Some(0)
        /\ (~pure.sent \/ pure.response = None) => pure.ret = Some(FALSE)

\* C32: every connect() that succeeds, a reconnect on the same object
\* included, leaves both ciphers newly built from the key of the connection
\* it opened, each 1024 bytes into its keystream, whatever the ciphers of an
\* earlier connection had reached.
C32_FreshCiphersOnEveryConnect ==
    [][last' \in {"connect_ok", "connect_ok_mismatch"}
         => \E c \in Callers :
               /\ pc[c] = "c_hs" /\ pc'[c] = "idle"
               /\ txCipher' = [key |-> loc[c], pos |-> Prime]
               /\ rxCipher' = [key |-> loc[c], pos |-> Prime]]_vars

C32_Witness ==
    /\ last \in {"connect_ok", "connect_ok_mismatch"}
    /\ sock = 2 /\ conns[1] # "unused"
    /\ txCipher = [key |-> 2, pos |-> Prime] /\ rxCipher = txCipher
    /\ \E t \in TaskIds : readers[t].st # "unused"

\* C33: the plaintext login line is the first line written on every
\* connection, and while the handshake of the connection in self._writer is
\* still awaited no encoded line (command or keepalive) is written on it.
C33_NothingEncodedBeforeHandshake ==
    /\ wire # <<>> => wire[1] = Plain("MP-A")
    /\ (\E c \in Callers : pc[c] = "c_hs" /\ loc[c] = sock)
          => \A i \in 1..Len(wire) : wire[i].key = 0

\* C36: authenticated is true only while connected is true.
C36_AuthenticatedImpliesConnected == authenticated => connected

\* C39: a connect() that raises after it opened its connection leaves that
\* connection closed.
C39_FailedConnectClosesSocket ==
    [][\A c \in Callers :
         (pc[c] = "c_hs" /\ pc'[c] = "idle" /\ last' = "connect_failed")
            => conns'[loc[c]] # "open"]_vars

\* C34: the response that wait_for_command_response returns to a caller is
\* the server's answer to the command that this caller wrote last, never
\* the answer to an earlier or to another caller's command.
C34_ResponseAnswersOwnCommand ==
    [][\A c \in Callers :
         (pc[c] = "w_wait" /\ WaitReturn(c) /\ commandResponse # 0)
            => commandResponse = cmd.mine[c]]_vars

\* C35: a response that the reader loop stored after a caller's command was
\* written is still there when that caller starts to wait: the caller's
\* wait_for_command_response never discards it.
C35_ResponseBeforeWaitIsKept ==
    [][\A c \in Callers :
         (pc[c] = "sent" /\ WaitStart(c)) => commandResponse = 0]_vars
\* C40: _request() re-authenticates and retries at most once per call: login()
\* runs only after a 404 on an endpoint other than /api/cookie, the request
\* that follows it has the retry disabled, a 404 on that request raises
\* OVMSAPIError, and the call is over after at most two attempts and one
\* login.
C40_RequestRetriesAtMostOnce ==
    pure.fn = "request" =>
        /\ pure.attempts <= 2
        /\ pure.logins <= 1
        /\ pure.logins <= pure.attempts
        /\ (pure.ph = "login" =>
               (pure.status = 404 /\ pure.endpoint # "/api/cookie"))
        /\ (pure.logins = 1 => pure.endpoint # "/api/cookie")
        /\ ((pure.logins = 1 /\ pure.ph = "call") => ~pure.retry)
        /\ (pure.attempts = 2 =>
               (/\ pure.logins = 1
                /\ pure.ph \in {"returned", "raised"}
                /\ (pure.status = 404 =>
                       pure.exc = Some(<<"OVMSAPIError", "Endpoint not found">>))))

C40_Witness ==
    /\ pure.fn = "request" /\ pure.attempts = 2 /\ pure.logins = 1
    /\ pure.status = 404 /\ pure.ph = "raised"
    /\ pure.exc = Some(<<"OVMSAPIError", "Endpoint not found">>)

\* C31: async_send_command() on a client that is not Ready first runs
\* disconnect(), connect() and start_background_reader(); when that reconnect
\* fails the call returns False and has written no command line; when it
\* succeeds the command line is written on the connection the call opened,
\* and a line is written only from send_command().
C31_ReconnectBeforeSend ==
    [][\A c \in Callers :
         /\ (job[c].at = "entered" /\ job'[c].at # "entered" /\ ~(connected /\ authenticated))
               => job'[c].at \in {"disconnecting", "connecting"}
         /\ (job[c].at = "connecting" /\ job'[c].at = "returned")
               => (job'[c].ret = "false" /\ cmd'.mine[c] = 0)
         /\ cmd'.mine[c] # cmd.mine[c]
               => /\ job[c].at \in {"send", "sending"}
                  /\ job[c].conn # 0 => sock = job[c].conn]_vars

\* C38: of the async_send_command() calls that run at the same time on a
\* client that is not Ready, at most one is in a handshake and at most one has
\* opened a connection, and when all have returned at most one socket is
\* open.
C38_OneReconnectAtATime ==
    /\ Cardinality({c \in Callers : job[c].at = "connecting" /\ pc[c] = "c_hs"}) <= 1
    /\ Cardinality({c \in Callers :
                      /\ job[c].at \in {"disconnecting", "connecting", "start"}
                      /\ job[c].conn # 0}) <= 1
    /\ (\A c \in Callers : job[c].at = "returned")
          => Cardinality({n \in Conns : conns[n] = "open"}) <= 1

\* C37: the command lock is held only by a caller that is suspended in the
\* write of send_command(); it is free as soon as that caller leaves the
\* write, by return, by a write error or by cancellation, and so whenever no
\* send_command() is in progress; a caller blocked on the lock does not stay
\* blocked for ever.
C37_LockHeldOnlyWhileWriting ==
    /\ [](lock # 0 => pc[lock] = "s_drain")
    /\ []((\A c \in Callers : pc[c] \notin {"s_lock", "s_drain"}) => lock = 0)
    /\ [][\A c \in Callers :
            (pc[c] = "s_drain" /\ pc'[c] # "s_drain") => lock' = 0]_vars
    /\ \A c \in Callers : (pc[c] = "s_lock") ~> (pc[c] # "s_lock")

C37_Witness ==
    /\ last = "send_cancelled" /\ lock = 0
    /\ \E c \in Callers : pc[c] = "s_lock" /\ lockQ = <<c>>

====
